---------------------------- MODULE Spec2Model ----------------------------
(***************************************************************************)
(* Hades II save manager: the snapshot store (create / list / delete /     *)
(* restore with live backup), the path/time codec, and the save-directory  *)
(* watcher (producer-side debounce, queue, consumer loop).                 *)
(*                                                                         *)
(* Conventions.                                                            *)
(*   - A string of the program is a sequence of one-character strings.     *)
(*   - A time is a number of clock ticks; TicksPerSecond ticks make one    *)
(*     second, so "truncated to whole seconds" is (t \div TPS) * TPS.      *)
(*     The local time zone is taken to be UTC.                             *)
(*   - Python's None for an optional time is NoTime.                       *)
(*   - A directory is a function from the file names of the model to a     *)
(*     content, 0 meaning "no such file".                                  *)
(***************************************************************************)
EXTENDS Integers, Sequences, FiniteSets, TLC

\* ------------------------------------------------------------------ bounds
TicksPerSecond == 2
\* the configured debounce threshold, in seconds (settings clamp it to 1..60)
Threshold == 1
\* the clock runs from 0 to MaxTime ticks
MaxTime == 5
\* profiles 1..MaxProfile take part in the store and watcher runs
MaxProfile == 2
\* file contents are versions 1..MaxContent
MaxContent == 2
\* the game writes or deletes at most MaxGameWrites files in a run
MaxGameWrites == 1
\* at most MaxStoreOps create / delete / restore calls in a run
MaxStoreOps == 2
\* the queue holds at most MaxQueue events in a run of the model
MaxQueue == 2
\* at most MaxEvents file events are delivered in a run
MaxEvents == 2
\* consumer threads that can exist at once
MaxThreads == 2
\* joins of the consumer thread that time out in a run
MaxTimeouts == 1
\* file events delivered in a run that starts from the import of the services
MaxInertEvents == 1
\* at most MaxFaults file copies or folder removals fail in a run
MaxFaults == 1
\* at most MaxListOps create / delete / restore calls in a run that lists
MaxListOps == 1
\* file events on directories and on files that are no save file of a profile
MaxStray == 2

\* ------------------------------------------------------- program constants
\* save slots are 1..NumProfiles
NumProfiles == 4

NoTime == -1
ThresholdTicks == Threshold * TicksPerSecond
Profiles == 1..MaxProfile
Times == 0..MaxTime

\* ----------------------------------------------------------------- strings
Digits == <<"0", "1", "2", "3", "4", "5", "6", "7", "8", "9">>
DigitChar(d) == Digits[d + 1]
IsDigit(c) == \E i \in 1..10 : Digits[i] = c
DigitVal(c) == (CHOOSE i \in 1..10 : Digits[i] = c) - 1

Pad2(n) == <<DigitChar((n \div 10) % 10), DigitChar(n % 10)>>
Pad4(n) == Pad2(n \div 100) \o Pad2(n % 100)

StartsWith(s, pre) ==
    /\ Len(s) >= Len(pre)
    /\ SubSeq(s, 1, Len(pre)) = pre
EndsWith(s, suf) ==
    /\ Len(s) >= Len(suf)
    /\ SubSeq(s, Len(s) - Len(suf) + 1, Len(s)) = suf

\* str.split(sep): every occurrence of sep separates, empty parts are kept
RECURSIVE SplitFrom(_, _, _, _)
SplitFrom(s, sep, i, cur) ==
    IF i > Len(s) THEN <<cur>>
    ELSE IF s[i] = sep THEN <<cur>> \o SplitFrom(s, sep, i + 1, <<>>)
    ELSE SplitFrom(s, sep, i + 1, Append(cur, s[i]))
Split(s, sep) == SplitFrom(s, sep, 1, <<>>)

\* str.replace(a, b) for single characters
Replace(s, a, b) == [i \in 1..Len(s) |-> IF s[i] = a THEN b ELSE s[i]]

\* int(s) of a digit string; -1 stands for the ValueError
RECURSIVE DigitsValue(_, _)
DigitsValue(s, acc) ==
    IF s = <<>> THEN acc
    ELSE DigitsValue(Tail(s), acc * 10 + DigitVal(Head(s)))
ParseInt(s) ==
    IF s # <<>> /\ \A i \in 1..Len(s) : IsDigit(s[i]) THEN DigitsValue(s, 0) ELSE -1

\* ------------------------------------------------- calendar (proleptic, UTC)
IsLeap(y) == (y % 4 = 0 /\ y % 100 # 0) \/ y % 400 = 0
DaysInMonth(y, m) ==
    IF m = 2 THEN (IF IsLeap(y) THEN 29 ELSE 28)
    ELSE IF m \in {4, 6, 9, 11} THEN 30 ELSE 31

\* day number since 1970-01-01 -> <<year, month, day>>
CivilFromDays(days) ==
    LET z == days + 719468
        era == z \div 146097
        doe == z - era * 146097
        yoe == (doe - doe \div 1460 + doe \div 36524 - doe \div 146096) \div 365
        doy == doe - (365 * yoe + yoe \div 4 - yoe \div 100)
        mp == (5 * doy + 2) \div 153
        d == doy - (153 * mp + 2) \div 5 + 1
        m == IF mp < 10 THEN mp + 3 ELSE mp - 9
        y == yoe + era * 400 + (IF m <= 2 THEN 1 ELSE 0)
    IN  <<y, m, d>>

\* <<year, month, day>> -> day number since 1970-01-01
DaysFromCivil(y0, m, d) ==
    LET y == IF m <= 2 THEN y0 - 1 ELSE y0
        era == y \div 400
        yoe == y - era * 400
        doy == (153 * (IF m > 2 THEN m - 3 ELSE m + 9) + 2) \div 5 + d - 1
        doe == yoe * 365 + yoe \div 4 - yoe \div 100 + doy
    IN  era * 146097 + doe - 719468

\* now.strftime("%Y-%m-%d_%H-%M-%S") of the clock reading t (ticks)
FormatStamp(t) ==
    LET secs == t \div TicksPerSecond
        ymd == CivilFromDays(secs \div 86400)
        sod == secs % 86400
    IN  Pad4(ymd[1]) \o <<"-">> \o Pad2(ymd[2]) \o <<"-">> \o Pad2(ymd[3])
        \o <<"_">> \o Pad2(sod \div 3600) \o <<"-">> \o Pad2((sod % 3600) \div 60)
        \o <<"-">> \o Pad2(sod % 60)

sProfileLower == <<"p", "r", "o", "f", "i", "l", "e">>

\* the decimal numeral of a small natural number (str(n))
RECURSIVE Numeral(_)
Numeral(n) == IF n < 10 THEN <<DigitChar(n)>> ELSE Numeral(n \div 10) \o <<DigitChar(n % 10)>>

\* get_snapshot_folder_name(profile_num) when datetime.now() reads t
GetSnapshotFolderName(profile_num, t) ==
    FormatStamp(t) \o <<"_">> \o sProfileLower \o Numeral(profile_num)

NoneParsed == [ok |-> FALSE, timestamp |-> 0, profile |-> 0]

\* datetime.strptime(s, "%Y-%m-%d %H:%M:%S").timestamp(); -1 for a ValueError
StrpTime(s) ==
    LET halves == Split(s, " ")
    IN  IF Len(halves) # 2 THEN -1
        ELSE LET dparts == Split(halves[1], "-")
                 tparts == Split(halves[2], ":")
             IN  IF Len(dparts) # 3 \/ Len(tparts) # 3 THEN -1
                 ELSE LET y == ParseInt(dparts[1])
                          mo == ParseInt(dparts[2])
                          d == ParseInt(dparts[3])
                          h == ParseInt(tparts[1])
                          mi == ParseInt(tparts[2])
                          sec == ParseInt(tparts[3])
                      IN  IF /\ Len(dparts[1]) = 4 /\ y >= 1
                             /\ Len(dparts[2]) \in {1, 2} /\ mo \in 1..12
                             /\ Len(dparts[3]) \in {1, 2} /\ d >= 1
                             /\ d <= DaysInMonth(y, mo)
                             /\ Len(tparts[1]) \in {1, 2} /\ h \in 0..23
                             /\ Len(tparts[2]) \in {1, 2} /\ mi \in 0..59
                             /\ Len(tparts[3]) \in {1, 2} /\ sec \in 0..61
                          THEN (DaysFromCivil(y, mo, d) * 86400 + h * 3600
                                + mi * 60 + sec) * TicksPerSecond
                          ELSE -1

\* parse_snapshot_folder_name(folder_name)
ParseSnapshotFolderName(folder_name) ==
    LET parts == Split(folder_name, "_")
    IN  IF Len(parts) < 4 THEN NoneParsed
        ELSE LET date_str == parts[1]
                 time_str == parts[2]
                 profile_str == parts[3]
             IN  IF ~StartsWith(profile_str, sProfileLower) THEN NoneParsed
                 ELSE LET profile_num == ParseInt(SubSeq(profile_str, 8, Len(profile_str)))
                          ts == StrpTime(date_str \o <<" ">> \o Replace(time_str, "-", ":"))
                      IN  IF profile_num < 0 \/ ts < 0 THEN NoneParsed
                          ELSE [ok |-> TRUE, timestamp |-> ts, profile |-> profile_num]

\* --------------------------------------------------------------- file names
sProfile == <<"P", "r", "o", "f", "i", "l", "e">>
sSav == <<".", "s", "a", "v">>
sBak == <<".", "b", "a", "k">>
sTempSav == <<"_", "T", "e", "m", "p", ".", "s", "a", "v">>
sSavBak == sSav \o sBak
sMetadataJson == <<"m", "e", "t", "a", "d", "a", "t", "a", ".", "j", "s", "o", "n">>
sReadmeTxt == <<"r", "e", "a", "d", "m", "e", ".", "t", "x", "t">>
sSnapshotPng == <<"s", "n", "a", "p", "s", "h", "o", "t", ".", "p", "n", "g">>

MainName(p) == sProfile \o Numeral(p) \o sSav
TempName(p) == sProfile \o Numeral(p) \o sTempSav
BakPrefix(p) == sProfile \o Numeral(p) \o sSavBak

\* The files of the model are identified by <<profile, kind>>; FileName gives
\* the name the program sees.  The game writes all three kinds of save file for
\* profile 1 and the primary save file alone for the other profiles; "bak" is
\* a numbered backup, Profile{p}.sav.bak1.
SaveFiles == {<<p, "main">> : p \in Profiles} \cup {<<1, "temp">>, <<1, "bak">>}
MetaFile == <<0, "metadata">>
PngFile == <<0, "png">>
FileName(f) ==
    CASE f[2] = "main" -> MainName(f[1])
      [] f[2] = "temp" -> TempName(f[1])
      [] f[2] = "bak" -> BakPrefix(f[1]) \o <<"1">>
      [] f[2] = "metadata" -> sMetadataJson
      [] f[2] = "png" -> sSnapshotPng
NameOf == [f \in SaveFiles \cup {MetaFile, PngFile} |-> FileName(f)]

Contents == 0..MaxContent
EmptyDir == [f \in SaveFiles |-> 0]
FilesIn(dir) == {f \in SaveFiles : dir[f] # 0}

\* pathlib's PurePath.suffix of a file name
Suffix(name) ==
    LET dots == {i \in 1..Len(name) : name[i] = "."}
    IN  IF dots = {} THEN <<>>
        ELSE LET i == CHOOSE k \in dots : \A j \in dots : j <= k
             IN  IF i > 1 /\ i < Len(name) THEN SubSeq(name, i, Len(name)) ELSE <<>>

\* find_profile_files(save_dir, profile_num): which names it looks for
IsProfileFile(name, profile_num) ==
    \/ name = MainName(profile_num)
    \/ name = TempName(profile_num)
    \/ StartsWith(name, BakPrefix(profile_num))
ProfileFiles == [p \in Profiles |-> {f \in SaveFiles : IsProfileFile(NameOf[f], p)}]
FindProfileFiles(dir, profile_num) == FilesIn(dir) \cap ProfileFiles[profile_num]

\* ------------------------------------------------------------ snapshot store
\* metadata.json: present: the file is there; loadable: json.load reads it
NoMeta == [present |-> FALSE, loadable |-> FALSE, profile |-> 0, timestamp |-> 0,
           files_copied |-> 0, has_screenshot |-> FALSE]
\* metadata.json as open(metadata_path, 'w') leaves it when nothing is written
TruncatedMeta == [NoMeta EXCEPT !.present = TRUE]
NoFolder == [exists |-> FALSE, files |-> EmptyDir, meta |-> NoMeta, png |-> FALSE]
EmptyFolder == [exists |-> TRUE, files |-> EmptyDir, meta |-> NoMeta, png |-> FALSE]

\* The folders snapshot_dir/Profile{p}/<name> that can come to exist in a run
\* are identified by <<p, second>>; FolderName gives the folder's name.
Seconds == 0..(MaxTime \div TicksPerSecond)
Paths == Profiles \X Seconds
NoPath == <<0, 0>>
FolderName == [path \in Paths |-> GetSnapshotFolderName(path[1], path[2] * TicksPerSecond)]
ParsedName == [path \in Paths |-> ParseSnapshotFolderName(FolderName[path])]
\* the folder snapshot_dir/Profile{p}/<name>
PathOf(p, name) == CHOOSE path \in Paths : path[1] = p /\ FolderName[path] = name
\* the folder a create_snapshot of profile p names when the clock reads t
FreshPath == [p \in Profiles, t \in Times |-> PathOf(p, GetSnapshotFolderName(p, t))]

VARIABLES
    now,               \* the latest reading of the wall clock, in ticks
    saveDir,           \* save_dir: file -> content (0: no such file)
    snapDir,           \* snapshot_dir/Profile{p}/<folder>: path -> folder
    liveBackup,        \* snapshot_dir/live_backup/Profile{p}: profile -> directory
    lastSnapshotTime,  \* SnapshotManager.last_snapshot_time
    last,              \* the latest Store call: its arguments and what it returned
    opsLeft,           \* Store calls the run may still make
    writesLeft,        \* files the game may still write or delete
    faultsLeft,        \* file copies, captures and folder removals that may still fail
    codec,             \* the latest codec round trip
    running,           \* SnapshotWatcher.running
    enabled,           \* SnapshotWatcher.enabled
    queue,             \* SnapshotWatcher.event_queue
    lastEventTime,     \* SaveFileEventHandler.last_event_time of the current handler
    threads,           \* the threads that run _process_events: where each one is
    procThread,        \* SnapshotWatcher.processing_thread (0: None)
    ui,                \* "idle", or "joining" while stop() waits for the consumer
    callbacks,         \* whether on_snapshot_created / on_error are set
    lastProd,          \* the latest file event the handler was given
    lastCons,          \* the latest event a consumer finished with
    enqueuedAt,        \* per profile, the stamps of the events enqueued last in this run
    eventsLeft,        \* file events the run may still deliver
    strayLeft,         \* events on directories and on other files it may deliver
    extracted,         \* the latest extract_profile_number call
    dirRank,           \* the place of a folder in the iteration order of its directory
    listing,           \* the latest list_snapshots call
    profileDir,        \* whether snapshot_dir/Profile{p} is there
    started,           \* what the latest start() returned ("none": not called yet)
    timeoutsLeft,      \* joins of the consumer thread that may still time out
    imported           \* how the import of the watcher module ended

storeVars == <<now, saveDir, snapDir, profileDir, liveBackup, lastSnapshotTime, last,
               opsLeft, writesLeft, faultsLeft>>
\* the variables that only their own operation changes
auxVars == <<codec, extracted, dirRank, listing, started, timeoutsLeft, imported>>
watcherVars == <<running, enabled, queue, lastEventTime, threads, procThread, ui,
                 callbacks, lastProd, lastCons, enqueuedAt, eventsLeft, strayLeft>>
vars == <<storeVars, auxVars, watcherVars>>

\* op: the call; p, path, ow, backup: its arguments (path: the folder it acted
\* on); ok: it returned a snapshot / true; io: a copy or removal failed in it;
\* existed: the folder was there before the call; again: the call is a
\* delete_snapshot that directly follows a successful delete of the same snapshot;
\* mfail: metadata.json could not be written; raised: an exception left the call;
\* asked, fails, count, removed: the list given to delete_snapshots, the
\* positions at which the removal failed, the number it returned and the
\* folders it removed
NoCall == [op |-> "none", p |-> 0, path |-> NoPath, ok |-> FALSE, ow |-> FALSE,
           backup |-> FALSE, io |-> FALSE, existed |-> FALSE, again |-> FALSE,
           mfail |-> FALSE, raised |-> FALSE, asked |-> <<>>, fails |-> {},
           count |-> 0, removed |-> {}]

\* ---- the exception handlers: the failures that are caught before they leave
\* the operation they happen in. CaughtInHelpers leaves out the handlers of the
\* SnapshotManager methods themselves
FailureKinds == {"copy", "capture", "rmtree", "metadata_write", "metadata_load",
                 "scan", "iterdir"}
CaughtInHelpers(kind) == kind \in {"copy", "capture", "rmtree"}
Caught(kind) == kind \in FailureKinds
Raises(kinds) == \E kind \in kinds : ~Caught(kind)

\* ---- get_timestamp(), datetime.now(): a reading is not before the latest one
ClockReadings == now..MaxTime

\* ---- list_snapshots
\* the Snapshot that list_snapshots builds for a child folder of Profile{p}:
\* from metadata.json when it is there, else from the folder's name
SnapshotOf(dir, path) ==
    LET f == dir[path]
        parsed == ParsedName[path]
    IN  IF f.meta.present /\ ~f.meta.loadable
        THEN [listed |-> FALSE, timestamp |-> 0, profile |-> 0, has_screenshot |-> FALSE]
        ELSE IF f.meta.present
        THEN [listed |-> TRUE, timestamp |-> f.meta.timestamp, profile |-> f.meta.profile,
              has_screenshot |-> f.meta.has_screenshot]
        ELSE IF parsed.ok
        THEN [listed |-> TRUE, timestamp |-> parsed.timestamp, profile |-> parsed.profile,
              has_screenshot |-> f.png]
        ELSE [listed |-> FALSE, timestamp |-> 0, profile |-> 0, has_screenshot |-> FALSE]

\* the paths list_snapshots(profile_num) returns
ListSnapshots(dir, profile_num) ==
    {path \in Paths : /\ path[1] = profile_num
                      /\ dir[path].exists
                      /\ SnapshotOf(dir, path).listed}

\* the candidates for snapshots[0]: the sort is by timestamp, newest first, and
\* the order among equal timestamps is the directory's iteration order
OldestListed(dir, profile_num) ==
    {path \in ListSnapshots(dir, profile_num) :
        \A q \in ListSnapshots(dir, profile_num) :
            SnapshotOf(dir, q).timestamp >= SnapshotOf(dir, path).timestamp}
NewestListed(dir, profile_num) ==
    {path \in ListSnapshots(dir, profile_num) :
        \A q \in ListSnapshots(dir, profile_num) :
            SnapshotOf(dir, q).timestamp <= SnapshotOf(dir, path).timestamp}

\* ---- I/O failures: the sets of files whose copy can fail in this call
FailSets(files) == {s \in SUBSET files : Cardinality(s) <= faultsLeft}
Faulted(n) == faultsLeft' = faultsLeft - n

\* ---- list_snapshots(profile_num) as the sequence it returns; profile_num = 0
\* stands for None, all profiles
AllProfileDirs(profile_num) == [i \in 1..NumProfiles |-> i]
ProfileDirs(profile_num) ==
    IF profile_num # 0 THEN <<profile_num>> ELSE [i \in 1..NumProfiles |-> i]

\* the places of a directory in the order iterdir() yields them
SecondsInOrder(rank) ==
    [i \in 1..Cardinality(Seconds) |-> CHOOSE second \in Seconds : rank[second] = i]

\* the snapshots appended for Profile{p}: nothing when the directory is not
\* there; a folder whose metadata.json does not load is logged and skipped
ScanProfileDir(dir, dirs, rank, p) ==
    LET Keep(second) == /\ dir[<<p, second>>].exists
                        /\ SnapshotOf(dir, <<p, second>>).listed
        kept == SelectSeq(SecondsInOrder(rank), Keep)
    IN  IF p \in Profiles /\ dirs[p]
        THEN [i \in 1..Len(kept) |-> <<p, kept[i]>>]
        ELSE <<>>

RECURSIVE Scan(_, _, _, _)
Scan(dir, dirs, rank, profile_dirs) ==
    IF profile_dirs = <<>> THEN <<>>
    ELSE ScanProfileDir(dir, dirs, rank, Head(profile_dirs))
         \o Scan(dir, dirs, rank, Tail(profile_dirs))

\* snapshots.sort(key=lambda s: s.timestamp, reverse=True): the sort is stable,
\* so snapshots of one timestamp stay in the order the scan appended them
RECURSIVE InsertByTimestamp(_, _, _)
InsertByTimestamp(dir, path, sorted) ==
    IF sorted = <<>> THEN <<path>>
    ELSE IF SnapshotOf(dir, Head(sorted)).timestamp >= SnapshotOf(dir, path).timestamp
         THEN <<Head(sorted)>> \o InsertByTimestamp(dir, path, Tail(sorted))
         ELSE <<path>> \o sorted

RECURSIVE SortNewestFirst(_, _)
SortNewestFirst(dir, snapshots) ==
    IF snapshots = <<>> THEN <<>>
    ELSE InsertByTimestamp(dir, snapshots[Len(snapshots)],
                           SortNewestFirst(dir, SubSeq(snapshots, 1, Len(snapshots) - 1)))

\* fail_at: NoFail, or the number of snapshots appended when the scan raises;
\* the handler of the scan is passed after the sort, so what a failed scan
\* returns is what it had appended, in the order of the scan
NoFail == -1
ListSnapshotsSeq(dir, dirs, rank, profile_num, fail_at) ==
    LET scanned == Scan(dir, dirs, rank, ProfileDirs(profile_num))
    IN  IF fail_at = NoFail
        THEN SortNewestFirst(dir, scanned)
        ELSE SubSeq(scanned, 1, fail_at)

\* the folders the scan finds a metadata.json in that does not load
Unloadable(dir, dirs, profile_num) ==
    {path \in Paths : /\ \E i \in DOMAIN ProfileDirs(profile_num) :
                             ProfileDirs(profile_num)[i] = path[1]
                      /\ dirs[path[1]]
                      /\ dir[path].exists
                      /\ dir[path].meta.present /\ ~dir[path].meta.loadable}

\* called: a call has been made; catalog, dirs: the catalog it was made on
NoListing == [called |-> FALSE, profile_num |-> 0, result |-> <<>>, failed |-> FALSE,
              raised |-> FALSE, catalog |-> <<>>, dirs |-> <<>>]

ListCall ==
    \E profile_num \in {0} \cup Profiles :
      LET scanned == Scan(snapDir, profileDir, dirRank, ProfileDirs(profile_num))
      IN  \E fail_at \in {NoFail} \cup (IF faultsLeft > 0 THEN 0..Len(scanned) ELSE {}) :
            /\ listing' =
                  [called |-> TRUE, profile_num |-> profile_num,
                   result |-> ListSnapshotsSeq(snapDir, profileDir, dirRank,
                                               profile_num, fail_at),
                   failed |-> fail_at # NoFail,
                   raised |-> Raises((IF fail_at # NoFail THEN {"scan"} ELSE {})
                                     \cup (IF Unloadable(snapDir, profileDir,
                                                         profile_num) # {}
                                           THEN {"metadata_load"} ELSE {})),
                   catalog |-> snapDir, dirs |-> profileDir]
            /\ Faulted(IF fail_at # NoFail THEN 1 ELSE 0)
            /\ UNCHANGED <<now, saveDir, snapDir, profileDir, liveBackup,
                           lastSnapshotTime, last, opsLeft, writesLeft, codec,
                           extracted, dirRank, started, timeoutsLeft, imported,
                           watcherVars>>


\* ---- safe_copy_file(src, dst): shutil.copy2 opens dst for writing, copies the
\* bytes and then the file times; where it raises decides what a failed copy
\* leaves at the destination: "untouched" (it raised before dst was opened),
\* "truncated" (while the bytes were written), "unstamped" (the bytes are all
\* there and copying the file times raised)
CopyFailures == {"untouched", "truncated", "unstamped"}
Truncated == MaxContent + 1
FailedCopy(how, before, content) ==
    CASE how = "untouched" -> before
      [] how = "truncated" -> Truncated
      [] how = "unstamped" -> content

\* ---- safe_copy_files(src_files, dst_dir): the files in failed are the ones
\* safe_copy_file returns False for; how[f] is the way the copy of f failed
SafeCopyFiles(src, src_files, dst, failed, how) ==
    [f \in SaveFiles |-> IF f \in src_files \ failed THEN src[f]
                         ELSE IF f \in src_files
                              THEN FailedCopy(how[f], dst[f], src[f])
                              ELSE dst[f]]

\* ---- create_snapshot(profile_num, take_screenshot, overwrite_last)
\*   failed: the files whose copy fails; shot: the screen capture, if it is
\*   attempted, succeeds;
\*   t: the clock when the folder is named; d: ticks that pass until the
\*   metadata is stamped
\* what safe_copy_files returns: the number of sources for which safe_copy_file
\* returned True
\* SafeCopyCountAttempted counts every source it was given
SafeCopyCountAttempted(src_files, failed) == Cardinality(src_files)
SafeCopyCount(src_files, failed) == Cardinality(src_files \ failed)

CreateTargets(profile_num, overwrite_last, t) ==
    IF overwrite_last /\ ListSnapshots(snapDir, profile_num) # {}
    THEN NewestListed(snapDir, profile_num)
    ELSE {FreshPath[profile_num, t]}

\* self.last_snapshot_time[profile_num] = metadata['timestamp'], which is
\* reached when metadata.json has been written
\* RecordedBeforeWrite sets the entry before the metadata are written
RecordedBeforeWrite(times, profile_num, timestamp, written) ==
    [times EXCEPT ![profile_num] = timestamp]
Recorded(times, profile_num, timestamp, written) ==
    IF written THEN [times EXCEPT ![profile_num] = timestamp] ELSE times

\* has_screenshot: False unless a capture is asked for, and then what
\* capture_and_resize returns; the folder is taken to get snapshot.png when it
\* returns True and to keep what it had when it returns False
\* HasScreenshotWhenAsked takes the request for the outcome
HasScreenshotWhenAsked(take_screenshot, shot) == take_screenshot
HasScreenshot(take_screenshot, shot) == take_screenshot /\ shot

CreateInto(profile_num, take_screenshot, overwrite_last, failed, how, shot, meta_write, t, d, target) ==
    LET save_files == FindProfileFiles(saveDir, profile_num)
        base == IF snapDir[target].exists THEN snapDir[target] ELSE EmptyFolder
        copied == save_files \ failed
        has_screenshot == HasScreenshot(take_screenshot, shot)
        ts == t + d
        kinds == (IF failed # {} THEN {"copy"} ELSE {})
                 \cup (IF take_screenshot /\ ~shot THEN {"capture"} ELSE {})
                 \cup (IF meta_write # "ok" THEN {"metadata_write"} ELSE {})
        call == [NoCall EXCEPT !.op = "create", !.p = profile_num, !.path = target,
                               !.ok = (copied # {} /\ meta_write = "ok"),
                               !.ow = overwrite_last, !.io = (failed # {}),
                               !.existed = snapDir[target].exists,
                               !.mfail = (meta_write # "ok"),
                               !.count = SafeCopyCount(save_files, failed),
                               !.raised = Raises(kinds)]
    IN  /\ profileDir' = [profileDir EXCEPT ![profile_num] = TRUE]
        /\ last' = call
        /\ IF copied = {}
           THEN /\ snapDir' = [snapDir EXCEPT ![target] =
                       [base EXCEPT !.files = SafeCopyFiles(saveDir, save_files,
                                                            base.files, failed, how)]]
                /\ UNCHANGED <<now, lastSnapshotTime>>
           ELSE /\ snapDir' = [snapDir EXCEPT ![target] =
                       [exists |-> TRUE,
                        files |-> SafeCopyFiles(saveDir, save_files, base.files, failed, how),
                        meta |-> CASE meta_write = "ok" ->
                                        [present |-> TRUE, loadable |-> TRUE,
                                         profile |-> profile_num, timestamp |-> ts,
                                         files_copied |-> SafeCopyCount(save_files, failed),
                                         has_screenshot |-> has_screenshot]
                                   [] meta_write = "open" -> base.meta
                                   [] meta_write = "dump" -> TruncatedMeta,
                        png |-> base.png \/ (take_screenshot /\ shot)]]
                /\ lastSnapshotTime' = Recorded(lastSnapshotTime, profile_num, ts,
                                                meta_write = "ok")
                /\ now' = ts

\* meta_write: "ok", or where the writing of metadata.json fails: at the open,
\* which leaves the file as it was, or at the dump, which leaves it truncated
DoCreate(profile_num, take_screenshot, overwrite_last) ==
    /\ opsLeft > 0
    /\ opsLeft' = opsLeft - 1
    /\ UNCHANGED <<saveDir, liveBackup, writesLeft>>
    /\ IF FindProfileFiles(saveDir, profile_num) = {}
       THEN /\ last' = [NoCall EXCEPT !.op = "create", !.p = profile_num,
                                      !.ow = overwrite_last]
            /\ UNCHANGED <<now, snapDir, profileDir, lastSnapshotTime, faultsLeft>>
       ELSE \E t \in ClockReadings, d \in {0, 1} :
              \E target \in CreateTargets(profile_num, overwrite_last, t),
                 failed \in FailSets(FindProfileFiles(saveDir, profile_num)),
                 shot \in BOOLEAN, meta_write \in {"ok", "open", "dump"} :
                \E how \in [failed -> CopyFailures] :
                  LET faults == Cardinality(failed) + (IF shot THEN 0 ELSE 1)
                                + (IF meta_write = "ok" THEN 0 ELSE 1)
                  IN  /\ t + d <= MaxTime
                      /\ ~shot => take_screenshot
                      /\ meta_write # "ok" =>
                            failed # FindProfileFiles(saveDir, profile_num)
                      /\ faults <= faultsLeft
                      /\ Faulted(faults)
                      /\ CreateInto(profile_num, take_screenshot, overwrite_last,
                                    failed, how, shot, meta_write, t, d, target)

CreateSnapshot ==
    /\ ui = "idle"
    /\ \E p \in Profiles, take \in BOOLEAN, ow \in BOOLEAN : DoCreate(p, take, ow)
    /\ UNCHANGED <<auxVars, watcherVars>>

\* ---- delete_snapshot(snapshot) -> safe_delete_directory(snapshot.path)
\*   fail: shutil.rmtree raises; the folder is then taken to be left as it was
SafeDeleteDirectoryAlways(path, fail) == ~fail
\* SafeDeleteDirectoryOrAbsent takes a directory that is not there for deleted
SafeDeleteDirectoryOrAbsent(path, fail) == ~snapDir[path].exists \/ ~fail
SafeDeleteDirectory(path, fail) == snapDir[path].exists /\ ~fail

DoDelete(path, fail) ==
    LET ok == SafeDeleteDirectory(path, fail)
    IN  /\ opsLeft > 0
        /\ opsLeft' = opsLeft - 1
        /\ snapDir' = IF ok THEN [snapDir EXCEPT ![path] = NoFolder] ELSE snapDir
        /\ last' = [NoCall EXCEPT !.op = "delete", !.p = path[1], !.path = path,
                                  !.ok = ok, !.io = fail,
                                  !.existed = snapDir[path].exists,
                                  !.again = (last.op = "delete" /\ last.path = path
                                             /\ last.ok),
                                  !.raised = Raises(IF fail THEN {"rmtree"} ELSE {})]
        /\ Faulted(IF fail THEN 1 ELSE 0)
        /\ UNCHANGED <<now, saveDir, profileDir, liveBackup, lastSnapshotTime, writesLeft>>

\* ---- delete_snapshots(snapshots): delete_snapshot on every element in turn;
\*   fails: the positions of the list at which shutil.rmtree raises
\* DeleteAllUntilFailure stops at the first element that is not removed
NoneDeleted(dir) == [dir |-> dir, count |-> 0, removed |-> {}]

RECURSIVE DeleteAllUntilFailure(_, _, _, _)
DeleteAllUntilFailure(dir, snapshots, fails, i) ==
    IF i > Len(snapshots) \/ ~dir[snapshots[i]].exists \/ i \in fails
    THEN NoneDeleted(dir)
    ELSE LET rest == DeleteAllUntilFailure([dir EXCEPT ![snapshots[i]] = NoFolder],
                                           snapshots, fails, i + 1)
         IN  [rest EXCEPT !.count = @ + 1, !.removed = @ \cup {snapshots[i]}]

RECURSIVE DeleteAll(_, _, _, _)
DeleteAll(dir, snapshots, fails, i) ==
    IF i > Len(snapshots) THEN NoneDeleted(dir)
    ELSE LET ok == dir[snapshots[i]].exists /\ i \notin fails
             rest == DeleteAll(IF ok THEN [dir EXCEPT ![snapshots[i]] = NoFolder]
                               ELSE dir,
                               snapshots, fails, i + 1)
         IN  IF ok
             THEN [rest EXCEPT !.count = @ + 1, !.removed = @ \cup {snapshots[i]}]
             ELSE rest

\* the lists the main window passes: snapshots it has listed, which may be
\* gone by now
BatchLists == {<<>>} \cup {<<path>> : path \in Paths}
              \cup {<<path, other>> : path \in Paths, other \in Paths}

DoDeleteAll(snapshots, fails) ==
    LET done == DeleteAll(snapDir, snapshots, fails, 1)
    IN  /\ opsLeft > 0
        /\ opsLeft' = opsLeft - 1
        /\ snapDir' = done.dir
        /\ last' = [NoCall EXCEPT !.op = "delete_snapshots", !.asked = snapshots,
                                  !.fails = fails,
                                  !.count = done.count, !.removed = done.removed,
                                  !.io = (fails # {}),
                                  !.raised = Raises(IF fails # {} THEN {"rmtree"}
                                                    ELSE {})]
        /\ Faulted(Cardinality(fails))
        /\ UNCHANGED <<now, saveDir, profileDir, liveBackup, lastSnapshotTime, writesLeft>>

DeleteSnapshots ==
    /\ ui = "idle"
    /\ \E snapshots \in BatchLists :
         \E fails \in {f \in SUBSET DOMAIN snapshots :
                          /\ Cardinality(f) <= faultsLeft
                          /\ \A i \in f :
                               /\ snapDir[snapshots[i]].exists
                               /\ \A j \in 1..(i - 1) :
                                     snapshots[j] = snapshots[i] => j \in f} :
            DoDeleteAll(snapshots, fails)
    /\ UNCHANGED <<auxVars, watcherVars>>

DeleteSnapshot ==
    /\ \E path \in Paths :
         \E fail \in (IF snapDir[path].exists /\ faultsLeft > 0
                      THEN BOOLEAN ELSE {FALSE}) :
            DoDelete(path, fail)
    /\ ui = "idle"
    /\ UNCHANGED <<auxVars, watcherVars>>

\* ---- restore_snapshot(snapshot, backup_current)
\* the files snapshot.path.iterdir() yields
Entries(f) ==
    FilesIn(f.files) \cup (IF f.meta.present THEN {MetaFile} ELSE {})
                     \cup (IF f.png THEN {PngFile} ELSE {})

\* the filter of restore_snapshot on a file of the snapshot folder
IsRestorable(name) ==
    \/ Suffix(name) \in {sSav, sBak}
    \/ EndsWith(name, sTempSav)
Restorable == {f \in SaveFiles \cup {MetaFile, PngFile} : IsRestorable(NameOf[f])}

SnapshotFiles(f) == Entries(f) \cap Restorable

\* step 1, the live backup: bfailed are the files whose backup copy fails
BackupCurrent(profile_num, backup_current, bfailed, bhow) ==
    LET current_files == FindProfileFiles(saveDir, profile_num)
    IN  IF backup_current /\ current_files # {}
        THEN [liveBackup EXCEPT ![profile_num] =
                  SafeCopyFiles(saveDir, current_files, EmptyDir, bfailed, bhow)]
        ELSE liveBackup

\* whether the restore reports success: some file of the snapshot was copied
RestoreOk(f, rfailed) == f.exists /\ SnapshotFiles(f) \ rfailed # {}

\* DoRestoreMoving moves the files out of the snapshot folder instead of
\* copying them
DoRestoreMoving(path, backup_current, bfailed, bhow, rfailed, rhow) ==
    LET profile_num == path[1]
        f == snapDir[path]
        moved == IF f.exists THEN SnapshotFiles(f) \ rfailed ELSE {}
    IN  /\ opsLeft > 0
        /\ opsLeft' = opsLeft - 1
        /\ liveBackup' = BackupCurrent(profile_num, backup_current, bfailed, bhow)
        /\ saveDir' = IF f.exists
                      THEN SafeCopyFiles(f.files, SnapshotFiles(f), saveDir, rfailed, rhow)
                      ELSE saveDir
        /\ snapDir' = [snapDir EXCEPT ![path].files =
                           [g \in SaveFiles |-> IF g \in moved THEN 0 ELSE @[g]]]
        /\ last' = [NoCall EXCEPT !.op = "restore", !.p = profile_num, !.path = path,
                                  !.ok = RestoreOk(f, rfailed),
                                  !.backup = backup_current,
                                  !.existed = f.exists]
        /\ Faulted(Cardinality(bfailed) + Cardinality(rfailed))
        /\ UNCHANGED <<now, profileDir, lastSnapshotTime, writesLeft>>

DoRestore(path, backup_current, bfailed, bhow, rfailed, rhow) ==
    LET profile_num == path[1]
        f == snapDir[path]
    IN  /\ opsLeft > 0
        /\ opsLeft' = opsLeft - 1
        /\ liveBackup' = BackupCurrent(profile_num, backup_current, bfailed, bhow)
        /\ saveDir' = IF f.exists
                      THEN SafeCopyFiles(f.files, SnapshotFiles(f), saveDir, rfailed, rhow)
                      ELSE saveDir
        /\ last' = [NoCall EXCEPT !.op = "restore", !.p = profile_num, !.path = path,
                                  !.ok = RestoreOk(f, rfailed),
                                  !.backup = backup_current,
                                  !.existed = f.exists,
                                  !.io = (bfailed # {} \/ rfailed # {}),
                                  !.raised =
                                      Raises((IF bfailed # {} \/ rfailed # {}
                                              THEN {"copy"} ELSE {})
                                             \cup (IF f.exists THEN {}
                                                   ELSE {"iterdir"}))]
        /\ Faulted(Cardinality(bfailed) + Cardinality(rfailed))
        /\ UNCHANGED <<now, snapDir, profileDir, lastSnapshotTime, writesLeft>>

RestoreSnapshot ==
    /\ \E path \in Paths, backup_current \in BOOLEAN :
         \E bfailed \in FailSets(IF backup_current
                                  THEN FindProfileFiles(saveDir, path[1]) ELSE {}),
            rfailed \in FailSets(IF snapDir[path].exists
                                  THEN SnapshotFiles(snapDir[path]) ELSE {}) :
           \E bhow \in [bfailed -> CopyFailures], rhow \in [rfailed -> CopyFailures] :
            /\ Cardinality(bfailed) + Cardinality(rfailed) <= faultsLeft
            /\ DoRestore(path, backup_current, bfailed, bhow, rfailed, rhow)
    /\ ui = "idle"
    /\ UNCHANGED <<auxVars, watcherVars>>

\* ---- the environment of the store
\* the game writes version c of a save file, or removes the file (c = 0)
GameWrite ==
    /\ writesLeft > 0
    /\ \E f \in SaveFiles, c \in Contents :
         /\ c # saveDir[f]
         /\ saveDir' = [saveDir EXCEPT ![f] = c]
    /\ writesLeft' = writesLeft - 1
    /\ UNCHANGED <<now, snapDir, profileDir, liveBackup, lastSnapshotTime, last,
                   opsLeft, faultsLeft, auxVars, watcherVars>>

\* =========================================================================
\* The watcher
\* =========================================================================
\* ---- should_create_new_snapshot(last_snapshot_time, threshold_seconds);
\* current_time is the clock reading it takes
ShouldCreateNewSnapshotAtThreshold(last_snapshot_time, current_time) ==
    \/ last_snapshot_time = NoTime
    \/ current_time - last_snapshot_time >= ThresholdTicks
ShouldCreateNewSnapshot(last_snapshot_time, current_time) ==
    \/ last_snapshot_time = NoTime
    \/ current_time - last_snapshot_time > ThresholdTicks

\* ---- SaveFileEventHandler._is_save_file
\* IsSaveFileByPrefix takes every name that starts with Profile
IsSaveFileByPrefix(name) == StartsWith(name, sProfile)
IsSaveFile(name) ==
    \/ EndsWith(name, sSav)
    \/ EndsWith(name, sTempSav)
    \/ EndsWith(name, sSavBak)

\* ---- extract_profile_number; 0 stands for None
\* DigitRunOfOne takes one digit where the loop takes the whole run
DigitRunOfOne(s, i) == IF i <= Len(s) /\ IsDigit(s[i]) THEN <<s[i]>> ELSE <<>>
RECURSIVE DigitRun(_, _)
DigitRun(s, i) ==
    IF i <= Len(s) /\ IsDigit(s[i]) THEN <<s[i]>> \o DigitRun(s, i + 1) ELSE <<>>
ExtractProfileNumber(name) ==
    IF ~StartsWith(name, sProfile) THEN 0
    ELSE LET num_str == DigitRun(name, Len(sProfile) + 1)
         IN  IF num_str # <<>> /\ DigitsValue(num_str, 0) \in 1..NumProfiles
             THEN DigitsValue(num_str, 0)
             ELSE 0

\* the names the observer reports events for: those of the game's save files
\* and strays, a file that is no save file, a save file name whose number is no
\* profile and one without a number; any of them may be a directory
StrayNames == {sReadmeTxt, sProfile \o <<"5">> \o sSav, sProfile \o sSav}
EventNames == {NameOf[f] : f \in SaveFiles} \cup StrayNames

\* the profile the handler accepts a file event for (0: the event is ignored)
AcceptedProfile == [name \in EventNames |->
                      IF IsSaveFile(name) THEN ExtractProfileNumber(name) ELSE 0]

NoEvent == [type |-> "none", profile |-> 0, timestamp |-> 0]
NoThread == [pc |-> "none", ev |-> NoEvent, atGet |-> FALSE]
Threads == 1..MaxThreads
NoProd == [kind |-> "none", profile |-> 0, enqueued |-> FALSE, name |-> <<>>,
           is_directory |-> FALSE]
NoCons == [kind |-> "none", created |-> 0, error |-> 0, raised |-> FALSE]
NeverEnqueued == [p \in Profiles |-> [any |-> NoTime, modified |-> NoTime]]

\* the observer delivers an event for the path: it comes out of the budget of
\* the kind of path
\* DeliveredWhenIdle holds the event back while a consumer is inside
\* create_snapshot
DeliveredWhenIdle(name, is_directory) ==
    /\ \A i \in Threads : threads[i].pc # "checked"
    /\ IF is_directory \/ name \in StrayNames
       THEN strayLeft > 0 /\ strayLeft' = strayLeft - 1 /\ UNCHANGED eventsLeft
       ELSE eventsLeft > 0 /\ eventsLeft' = eventsLeft - 1 /\ UNCHANGED strayLeft

Delivered(name, is_directory) ==
    IF is_directory \/ name \in StrayNames
    THEN strayLeft > 0 /\ strayLeft' = strayLeft - 1 /\ UNCHANGED eventsLeft
    ELSE eventsLeft > 0 /\ eventsLeft' = eventsLeft - 1 /\ UNCHANGED strayLeft

\* ---- SaveFileEventHandler.on_modified(event) for the path name
\*   t: the reading current_time = get_timestamp(); d: the ticks that pass
\*   until should_create_new_snapshot reads the clock
OnModified ==
    /\ running
    /\ \E name \in EventNames, is_directory \in BOOLEAN :
         LET profile_num == IF is_directory THEN 0 ELSE AcceptedProfile[name]
             given == [NoProd EXCEPT !.name = name, !.is_directory = is_directory]
         IN  /\ Delivered(name, is_directory)
             /\ IF profile_num = 0
                THEN /\ lastProd' = [given EXCEPT !.kind = "ignored"]
                     /\ UNCHANGED <<now, queue, lastEventTime, enqueuedAt>>
                ELSE \E t \in ClockReadings, d \in {0, 1} :
                       LET last_time == lastEventTime[profile_num]
                           put == ShouldCreateNewSnapshot(last_time, t + d)
                       IN  /\ t + d <= MaxTime
                           /\ put => Len(queue) < MaxQueue
                           /\ now' = t + d
                           /\ queue' = IF put
                                       THEN Append(queue, [type |-> "file_modified",
                                                           profile |-> profile_num,
                                                           timestamp |-> t])
                                       ELSE queue
                           /\ lastEventTime' =
                                  IF put
                                  THEN [lastEventTime EXCEPT ![profile_num] = t]
                                  ELSE lastEventTime
                           /\ enqueuedAt' = IF put
                                            THEN [enqueuedAt EXCEPT ![profile_num] =
                                                     [any |-> t, modified |-> t]]
                                            ELSE enqueuedAt
                           /\ lastProd' = [given EXCEPT !.kind = "modified",
                                                        !.profile = profile_num,
                                                        !.enqueued = put]
    /\ UNCHANGED <<saveDir, snapDir, profileDir, liveBackup, lastSnapshotTime, last, opsLeft,
                   writesLeft, faultsLeft, auxVars, running, enabled, threads,
                   procThread, ui, callbacks, lastCons>>

\* ---- SaveFileEventHandler.on_created(event) for the path name
\* OnCreatedDebounced puts the event through the debounce of on_modified
OnCreatedDebounced ==
    /\ running
    /\ \E name \in EventNames, is_directory \in BOOLEAN :
         LET profile_num == IF is_directory THEN 0 ELSE AcceptedProfile[name]
             given == [NoProd EXCEPT !.name = name, !.is_directory = is_directory]
         IN  /\ Delivered(name, is_directory)
             /\ IF profile_num = 0
                THEN /\ lastProd' = [given EXCEPT !.kind = "ignored"]
                     /\ UNCHANGED <<now, queue, enqueuedAt>>
                ELSE \E t \in ClockReadings :
                       LET put == ShouldCreateNewSnapshot(enqueuedAt[profile_num].any, t)
                       IN  /\ put => Len(queue) < MaxQueue
                           /\ now' = t
                           /\ queue' = IF put
                                       THEN Append(queue, [type |-> "file_created",
                                                           profile |-> profile_num,
                                                           timestamp |-> t])
                                       ELSE queue
                           /\ enqueuedAt' = IF put
                                            THEN [enqueuedAt EXCEPT
                                                     ![profile_num].any = t]
                                            ELSE enqueuedAt
                           /\ lastProd' = [given EXCEPT !.kind = "created",
                                                        !.profile = profile_num,
                                                        !.enqueued = put]
    /\ UNCHANGED <<saveDir, snapDir, profileDir, liveBackup, lastSnapshotTime, last, opsLeft,
                   writesLeft, faultsLeft, auxVars, running, enabled, lastEventTime,
                   threads, procThread, ui, callbacks, lastCons>>

OnCreated ==
    /\ running
    /\ \E name \in EventNames, is_directory \in BOOLEAN :
         LET profile_num == IF is_directory THEN 0 ELSE AcceptedProfile[name]
             given == [NoProd EXCEPT !.name = name, !.is_directory = is_directory]
         IN  /\ Delivered(name, is_directory)
             /\ IF profile_num = 0
                THEN /\ lastProd' = [given EXCEPT !.kind = "ignored"]
                     /\ UNCHANGED <<now, queue, enqueuedAt>>
                ELSE \E t \in ClockReadings :
                       /\ Len(queue) < MaxQueue
                       /\ now' = t
                       /\ queue' = Append(queue, [type |-> "file_created",
                                                  profile |-> profile_num,
                                                  timestamp |-> t])
                       /\ enqueuedAt' = [enqueuedAt EXCEPT ![profile_num].any = t]
                       /\ lastProd' = [given EXCEPT !.kind = "created",
                                                    !.profile = profile_num,
                                                    !.enqueued = TRUE]
    /\ UNCHANGED <<saveDir, snapDir, profileDir, liveBackup, lastSnapshotTime, last, opsLeft,
                   writesLeft, faultsLeft, auxVars, running, enabled, lastEventTime,
                   threads, procThread, ui, callbacks, lastCons>>

\* ---- SnapshotWatcher.start()
\* already running: returns True and changes nothing; else a new handler (its
\* last_event_time empty), a new observer and a new consumer thread
\* without watchdog: returns False at once. If the observer cannot be set up or
\* started, the new handler is in place, running stays False and False is
\* returned
\* StartAnew goes through the set-up whether or not the watcher is running
StartAnew ==
    /\ ui = "idle"
    /\ IF ~imported.watchdog
       THEN /\ started' = "false"
            /\ UNCHANGED <<running, lastEventTime, threads, procThread, enqueuedAt,
                           faultsLeft>>
       ELSE /\ lastEventTime' = [p \in Profiles |-> NoTime]
            /\ enqueuedAt' = NeverEnqueued
            /\ \/ \E i \in Threads :
                    /\ threads[i].pc = "none"
                    /\ \A j \in Threads : threads[j].pc = "none" => i <= j
                    /\ running' = TRUE
                    /\ threads' = [threads EXCEPT ![i].pc = "top"]
                    /\ procThread' = i
                    /\ started' = "true"
                    /\ UNCHANGED faultsLeft
               \/ /\ faultsLeft > 0
                  /\ Faulted(1)
                  /\ running' = FALSE
                  /\ started' = "false"
                  /\ UNCHANGED <<threads, procThread>>
    /\ UNCHANGED <<now, saveDir, snapDir, profileDir, liveBackup, lastSnapshotTime, last,
                   opsLeft, writesLeft, codec, extracted, dirRank, listing, timeoutsLeft,
                   imported, enabled, queue, ui, callbacks, lastProd, lastCons,
                   eventsLeft, strayLeft>>

Start ==
    /\ ui = "idle"
    /\ IF ~imported.watchdog
       THEN /\ started' = "false"
            /\ UNCHANGED <<running, lastEventTime, threads, procThread, enqueuedAt,
                           faultsLeft>>
       ELSE IF running
       THEN /\ started' = "true"
            /\ UNCHANGED <<running, lastEventTime, threads, procThread, enqueuedAt,
                           faultsLeft>>
       ELSE /\ lastEventTime' = [p \in Profiles |-> NoTime]
            /\ enqueuedAt' = NeverEnqueued
            /\ \/ \E i \in Threads :
                    /\ threads[i].pc = "none"
                    /\ \A j \in Threads : threads[j].pc = "none" => i <= j
                    /\ running' = TRUE
                    /\ threads' = [threads EXCEPT ![i].pc = "top"]
                    /\ procThread' = i
                    /\ started' = "true"
                    /\ UNCHANGED faultsLeft
               \/ /\ faultsLeft > 0
                  /\ Faulted(1)
                  /\ running' = FALSE
                  /\ started' = "false"
                  /\ UNCHANGED <<threads, procThread>>
    /\ UNCHANGED <<now, saveDir, snapDir, profileDir, liveBackup, lastSnapshotTime, last,
                   opsLeft, writesLeft, codec, extracted, dirRank, listing, timeoutsLeft,
                   imported, enabled, queue, ui, callbacks, lastProd, lastCons,
                   eventsLeft, strayLeft>>

\* ---- SnapshotWatcher.stop(): not running: it returns at once; else running
\* is cleared, the observer is stopped, then the consumer thread is joined
Stop ==
    /\ ui = "idle"
    /\ IF ~running
       THEN UNCHANGED <<running, ui>>
       ELSE /\ running' = FALSE
            /\ ui' = IF procThread # 0 THEN "joining" ELSE "idle"
    /\ UNCHANGED <<storeVars, auxVars, enabled, queue, lastEventTime, threads, procThread,
                   callbacks, lastProd, lastCons, enqueuedAt, eventsLeft, strayLeft>>

\* processing_thread.join(timeout=5) returns: the thread has ended, or it is
\* inside create_snapshot and the five seconds have passed
JoinReturn ==
    /\ ui = "joining"
    /\ \/ /\ threads[procThread].pc = "none"
          /\ UNCHANGED timeoutsLeft
       \/ /\ threads[procThread].pc = "checked"
          /\ timeoutsLeft > 0
          /\ timeoutsLeft' = timeoutsLeft - 1
    /\ ui' = "idle"
    /\ procThread' = 0
    /\ UNCHANGED <<storeVars, codec, extracted, dirRank, listing, started, imported,
                   running, enabled, queue, lastEventTime, threads, callbacks, lastProd,
                   lastCons, enqueuedAt, eventsLeft, strayLeft>>

\* ---- SnapshotWatcher.enable() / disable()
\* DisableAndStop is a disable() that clears the running flag as well
DisableAndStop ==
    /\ ui = "idle"
    /\ enabled' = FALSE
    /\ running' = FALSE
    /\ UNCHANGED <<storeVars, auxVars, queue, lastEventTime, threads, procThread,
                   ui, callbacks, lastProd, lastCons, enqueuedAt, eventsLeft, strayLeft>>

Enable ==
    /\ ui = "idle"
    /\ enabled' = TRUE
    /\ UNCHANGED <<storeVars, auxVars, running, queue, lastEventTime, threads, procThread,
                   ui, callbacks, lastProd, lastCons, enqueuedAt, eventsLeft, strayLeft>>

Disable ==
    /\ ui = "idle"
    /\ enabled' = FALSE
    /\ UNCHANGED <<storeVars, auxVars, running, queue, lastEventTime, threads, procThread,
                   ui, callbacks, lastProd, lastCons, enqueuedAt, eventsLeft, strayLeft>>

\* ---- set_snapshot_created_callback / set_error_callback
SetSnapshotCreatedCallback ==
    /\ ui = "idle"
    /\ callbacks' = [callbacks EXCEPT !.created = TRUE]
    /\ UNCHANGED <<storeVars, auxVars, running, enabled, queue, lastEventTime, threads,
                   procThread, ui, lastProd, lastCons, enqueuedAt, eventsLeft, strayLeft>>

SetErrorCallback ==
    /\ ui = "idle"
    /\ callbacks' = [callbacks EXCEPT !.error = TRUE]
    /\ UNCHANGED <<storeVars, auxVars, running, enabled, queue, lastEventTime, threads,
                   procThread, ui, lastProd, lastCons, enqueuedAt, eventsLeft, strayLeft>>

\* ---- SnapshotWatcher._process_events, thread i
\* while self.running:
\* ConsumerTopForever goes round whatever the flag says
ConsumerTopForever(i) ==
    /\ threads[i].pc = "top"
    /\ threads' = [threads EXCEPT ![i].pc = "get"]
    /\ UNCHANGED <<storeVars, auxVars, running, enabled, queue, lastEventTime, procThread,
                   ui, callbacks, lastProd, lastCons, enqueuedAt, eventsLeft, strayLeft>>

ConsumerTop(i) ==
    /\ threads[i].pc = "top"
    /\ threads' = [threads EXCEPT ![i].pc = IF running THEN "get" ELSE "none"]
    /\ UNCHANGED <<storeVars, auxVars, running, enabled, queue, lastEventTime, procThread,
                   ui, callbacks, lastProd, lastCons, enqueuedAt, eventsLeft, strayLeft>>

\* event = self.event_queue.get(timeout=1) returns an event
ConsumerGet(i) ==
    /\ threads[i].pc = "get"
    /\ queue # <<>>
    /\ threads' = [threads EXCEPT ![i] = [pc |-> "dequeued", ev |-> Head(queue),
                                          atGet |-> enabled]]
    /\ queue' = Tail(queue)
    /\ UNCHANGED <<storeVars, auxVars, running, enabled, lastEventTime, procThread, ui,
                   callbacks, lastProd, lastCons, enqueuedAt, eventsLeft, strayLeft>>

\* it raises queue.Empty after the second: continue
\* ConsumerTimeoutEnds leaves the loop instead
ConsumerTimeoutEnds(i) ==
    /\ threads[i].pc = "get"
    /\ queue = <<>>
    /\ threads' = [threads EXCEPT ![i].pc = "none"]
    /\ UNCHANGED <<storeVars, auxVars, running, enabled, queue, lastEventTime, procThread,
                   ui, callbacks, lastProd, lastCons, enqueuedAt, eventsLeft, strayLeft>>

ConsumerTimeout(i) ==
    /\ threads[i].pc = "get"
    /\ queue = <<>>
    /\ threads' = [threads EXCEPT ![i].pc = "top"]
    /\ UNCHANGED <<storeVars, auxVars, running, enabled, queue, lastEventTime, procThread,
                   ui, callbacks, lastProd, lastCons, enqueuedAt, eventsLeft, strayLeft>>

\* if not self.enabled: continue
DroppedNever(is_enabled) == FALSE
Dropped(is_enabled) == ~is_enabled

ConsumerCheck(i) ==
    /\ threads[i].pc = "dequeued"
    /\ IF Dropped(enabled)
       THEN /\ threads' = [threads EXCEPT ![i] = [NoThread EXCEPT !.pc = "top"]]
            /\ lastCons' = [NoCons EXCEPT !.kind = "dropped"]
       ELSE /\ threads' = [threads EXCEPT ![i].pc = "checked"]
            /\ UNCHANGED lastCons
    /\ UNCHANGED <<storeVars, auxVars, running, enabled, queue, lastEventTime, procThread,
                   ui, callbacks, lastProd, enqueuedAt, eventsLeft, strayLeft>>

\* the overwrite decision on get_last_snapshot_time(profile_num)
OverwriteLastBelow(last_time, timestamp) ==
    last_time # NoTime /\ timestamp - last_time < ThresholdTicks
OverwriteLast(last_time, timestamp) ==
    last_time # NoTime /\ timestamp - last_time <= ThresholdTicks

\* the callbacks invoked after create_snapshot returned (snapshot: it returned
\* a snapshot), each only when it is set
NotifyError(snapshot, on_snapshot_created, on_error) ==
    [created |-> 0, error |-> IF on_error THEN 1 ELSE 0]
Notify(snapshot, on_snapshot_created, on_error) ==
    [created |-> IF snapshot /\ on_snapshot_created THEN 1 ELSE 0,
     error |-> IF ~snapshot /\ on_error THEN 1 ELSE 0]

\* a callback that raises: the try around the call catches and logs it, the
\* calls made stay what they are
\* RaisedToLoop lets it through to the handler of the loop, which calls on_error
RaisedToLoop(called, raises, on_error) ==
    IF raises /\ on_error THEN [called EXCEPT !.error = @ + 1] ELSE called
RaisedAtCall(called, raises, on_error) == called

\* create_snapshot(profile_num, take_screenshot=True, overwrite_last=overwrite)
\* and the callback; raises: the callback raises
ConsumerProcess(i) ==
    LET event == threads[i].ev
        profile_num == event.profile
        last_time == lastSnapshotTime[profile_num]
        overwrite == OverwriteLast(last_time, event.timestamp)
    IN  /\ threads[i].pc = "checked"
        /\ DoCreate(profile_num, TRUE, overwrite)
        /\ LET called == Notify(last'.ok, callbacks.created, callbacks.error)
           IN  \E raises \in (IF called.created + called.error > 0
                              THEN BOOLEAN ELSE {FALSE}) :
                  LET made == RaisedAtCall(called, raises, callbacks.error)
                  IN  lastCons' = [kind |-> "processed", created |-> made.created,
                                   error |-> made.error, raised |-> raises]
        /\ threads' = [threads EXCEPT ![i] = [NoThread EXCEPT !.pc = "top"]]
        /\ UNCHANGED <<auxVars, running, enabled, queue, lastEventTime, procThread, ui,
                       callbacks, lastProd, enqueuedAt, eventsLeft, strayLeft>>

NoExtract == [called |-> FALSE, name |-> <<>>, result |-> 0]

\* ---- initial state: a manager constructed, at the start of second 1, on a
\* catalog that holds one snapshot per profile, taken by an earlier run in
\* second 0 of version 1 of the profile's files; the game has since written
\* version 2 of every file
OldSnapshot(p) ==
    [exists |-> TRUE,
     files |-> [f \in SaveFiles |-> IF f \in ProfileFiles[p] THEN 1 ELSE 0],
     meta |-> [present |-> TRUE, loadable |-> TRUE, profile |-> p, timestamp |-> 0,
               files_copied |-> Cardinality(ProfileFiles[p]),
               has_screenshot |-> FALSE],
     png |-> FALSE]

NoCodec == [p |-> 0, t |-> 0, name |-> <<>>, parsed |-> NoneParsed]

\* the catalog the manager is constructed on: snapshot_dir is "missing",
\* holds an "empty" directory per profile, or holds the "old" snapshots
CatalogShapes == {"missing", "empty", "old"}
InitCatalog(shape) ==
    /\ snapDir = [path \in Paths |-> IF shape = "old" /\ path[2] = 0
                                     THEN OldSnapshot(path[1])
                                     ELSE NoFolder]
    /\ profileDir = [p \in Profiles |-> shape # "missing"]

\* the orders in which iterdir() can yield the folders of a directory
DirRanks == {rank \in [Seconds -> 1..Cardinality(Seconds)] :
                \A a \in Seconds, b \in Seconds : a # b => rank[a] # rank[b]}

InitStore ==
    /\ now = TicksPerSecond
    /\ saveDir = [f \in SaveFiles |-> 2]
    /\ InitCatalog("old")
    /\ liveBackup = [p \in Profiles |-> EmptyDir]
    /\ lastSnapshotTime = [p \in Profiles |-> NoTime]
    /\ last = NoCall
    /\ codec = NoCodec
    /\ extracted = NoExtract
    /\ dirRank = [second \in Seconds |-> second + 1]
    /\ listing = NoListing

\* ---- the import of services.snapshot_watcher: without watchdog the names of
\* the try block stay unbound, and the class statement of SaveFileEventHandler,
\* which names FileSystemEventHandler as its base, raises NameError; the
\* services package imports the module, so the package fails to load with it
ImportWatcher(available) ==
    [watchdog |-> available, result |-> IF available THEN "ok" ELSE "NameError"]

\* a watcher constructed: stopped, disabled, no callback set; registered: the
\* main window has gone on to set both callbacks
InitWatcher(registered) ==
    /\ running = FALSE
    /\ enabled = FALSE
    /\ queue = <<>>
    /\ lastEventTime = [p \in Profiles |-> NoTime]
    /\ threads = [i \in Threads |-> NoThread]
    /\ procThread = 0
    /\ ui = "idle"
    /\ callbacks = [created |-> registered, error |-> registered]
    /\ lastProd = NoProd
    /\ lastCons = NoCons
    /\ enqueuedAt = NeverEnqueued
    /\ started = "none"

Init ==
    /\ InitStore
    /\ InitWatcher(FALSE)
    /\ timeoutsLeft = MaxTimeouts
    /\ imported = ImportWatcher(TRUE)
    /\ eventsLeft = MaxEvents
    /\ strayLeft = 0
    /\ opsLeft = MaxStoreOps
    /\ writesLeft = MaxGameWrites
    /\ faultsLeft = MaxFaults

\* the state in which the main window starts the watcher; in the runs from
\* it every join of the consumer thread ends with the thread and nothing fails
InitMainWindow ==
    /\ InitStore
    /\ InitWatcher(TRUE)
    /\ timeoutsLeft = 0
    /\ imported = ImportWatcher(TRUE)
    /\ eventsLeft = MaxEvents
    /\ strayLeft = 0
    /\ opsLeft = MaxStoreOps
    /\ writesLeft = 0
    /\ faultsLeft = 0

\* the same state for runs in which a join can time out and nothing else fails
InitRestart ==
    /\ InitStore
    /\ InitWatcher(TRUE)
    /\ timeoutsLeft = MaxTimeouts
    /\ imported = ImportWatcher(TRUE)
    /\ eventsLeft = MaxEvents
    /\ strayLeft = 0
    /\ opsLeft = MaxStoreOps
    /\ writesLeft = 0
    /\ faultsLeft = 0

\* a manager constructed on any of the catalogs, the directories iterating in
\* any order
InitList ==
    /\ now = TicksPerSecond
    /\ saveDir = [f \in SaveFiles |-> 2]
    /\ \E shape \in CatalogShapes : InitCatalog(shape)
    /\ liveBackup = [p \in Profiles |-> EmptyDir]
    /\ lastSnapshotTime = [p \in Profiles |-> NoTime]
    /\ last = NoCall
    /\ codec = NoCodec
    /\ extracted = NoExtract
    /\ dirRank \in DirRanks
    /\ listing = NoListing
    /\ InitWatcher(FALSE)
    /\ timeoutsLeft = MaxTimeouts
    /\ imported = ImportWatcher(TRUE)
    /\ eventsLeft = MaxEvents
    /\ strayLeft = 0
    /\ opsLeft = MaxListOps
    /\ writesLeft = 0
    /\ faultsLeft = MaxFaults

NextStore ==
    \/ CreateSnapshot
    \/ DeleteSnapshot
    \/ DeleteSnapshots
    \/ RestoreSnapshot
    \/ GameWrite

SpecStore == Init /\ [][NextStore]_vars

\* ---- the store and its listing
NextList ==
    \/ ListCall
    \/ CreateSnapshot
    \/ DeleteSnapshot
    \/ DeleteSnapshots
    \/ RestoreSnapshot

SpecList == InitList /\ [][NextList]_vars

\* ---- the watcher on the store: the presentation layer drives the watcher,
\* the observer delivers file events, the consumers take them
NextWatcher ==
    \/ Start
    \/ Stop
    \/ JoinReturn
    \/ Enable
    \/ Disable
    \/ OnModified
    \/ OnCreated
    \/ \E i \in Threads : ConsumerTop(i)
    \/ \E i \in Threads : ConsumerGet(i)
    \/ \E i \in Threads : ConsumerTimeout(i)
    \/ \E i \in Threads : ConsumerCheck(i)
    \/ \E i \in Threads : ConsumerProcess(i)

SpecWatcher == InitMainWindow /\ [][NextWatcher]_vars

\* ---- the watcher stopped and started again while a snapshot is in the making
SpecRestart == InitRestart /\ [][NextWatcher]_vars

\* ---- the watcher on a save directory in which other things happen as well:
\* events arrive for directories and for files that are no save file of a
\* profile; nothing fails
InitEvents ==
    /\ InitStore
    /\ InitWatcher(TRUE)
    /\ timeoutsLeft = 0
    /\ imported = ImportWatcher(TRUE)
    /\ eventsLeft = MaxInertEvents
    /\ strayLeft = MaxStray
    /\ opsLeft = MaxListOps
    /\ writesLeft = 0
    /\ faultsLeft = 0

SpecEvents == InitEvents /\ [][NextWatcher]_vars

\* ---- the watcher stopped, with the scheduling the consumer can count on: a
\* thread that can take its next step takes it, queue.get returns within its
\* second and create_snapshot returns; there are at least as many store
\* operations as events
InitStop ==
    /\ InitStore
    /\ InitWatcher(TRUE)
    /\ timeoutsLeft = MaxTimeouts
    /\ imported = ImportWatcher(TRUE)
    /\ eventsLeft = MaxInertEvents
    /\ strayLeft = 0
    /\ opsLeft = MaxStoreOps
    /\ writesLeft = 0
    /\ faultsLeft = MaxFaults

ConsumerFairness ==
    \A i \in Threads :
       /\ WF_vars(ConsumerTop(i))
       /\ WF_vars(ConsumerGet(i))
       /\ WF_vars(ConsumerTimeout(i))
       /\ WF_vars(ConsumerCheck(i))
       /\ WF_vars(ConsumerProcess(i))

SpecStop == InitStop /\ [][NextWatcher]_vars /\ ConsumerFairness

\* ---- the application from the import of its services on, with or without
\* watchdog: nothing of the services can be called unless the import
\* succeeded; the store is used through the manual snapshot of the main window
InitInert ==
    /\ InitStore
    /\ InitWatcher(TRUE)
    /\ \E available \in BOOLEAN : imported = ImportWatcher(available)
    /\ eventsLeft = MaxInertEvents
    /\ strayLeft = 0
    /\ timeoutsLeft = 0
    /\ opsLeft = MaxListOps
    /\ writesLeft = 0
    /\ faultsLeft = MaxFaults

NextInert ==
    /\ imported.result = "ok"
    /\ \/ NextWatcher
       \/ CreateSnapshot

SpecInert == InitInert /\ [][NextInert]_vars

\* ---- the main window open on a watcher it has started and enabled: the
\* player deletes snapshots while the game writes and the consumer runs;
\* nothing fails
MaxBrowseOps == 3
InitServices ==
    /\ running = TRUE
    /\ enabled = TRUE
    /\ queue = <<>>
    /\ lastEventTime = [p \in Profiles |-> NoTime]
    /\ threads = [i \in Threads |-> IF i = 1 THEN [NoThread EXCEPT !.pc = "top"]
                                    ELSE NoThread]
    /\ procThread = 1
    /\ ui = "idle"
    /\ callbacks = [created |-> TRUE, error |-> TRUE]
    /\ lastProd = NoProd
    /\ lastCons = NoCons
    /\ enqueuedAt = NeverEnqueued
    /\ started = "true"

InitBrowse ==
    /\ InitStore
    /\ InitServices
    /\ timeoutsLeft = 0
    /\ imported = ImportWatcher(TRUE)
    /\ eventsLeft = MaxEvents
    /\ strayLeft = 0
    /\ opsLeft = MaxBrowseOps
    /\ writesLeft = 0
    /\ faultsLeft = 0

Consumer ==
    \/ \E i \in Threads : ConsumerTop(i)
    \/ \E i \in Threads : ConsumerGet(i)
    \/ \E i \in Threads : ConsumerTimeout(i)
    \/ \E i \in Threads : ConsumerCheck(i)
    \/ \E i \in Threads : ConsumerProcess(i)

NextBrowse ==
    \/ DeleteSnapshot
    \/ OnModified
    \/ Consumer

SpecBrowse == InitBrowse /\ [][NextBrowse]_vars

\* ---- the same window with the game closed: the player takes manual
\* snapshots and restores snapshots; the files of save_dir are written by
\* restore_snapshot alone, and the observer reports a file that a restore has
\* written as modified
\* MainWindow._take_manual_snapshot
TakeManualSnapshot ==
    /\ ui = "idle"
    /\ \E p \in Profiles : DoCreate(p, TRUE, FALSE)
    /\ UNCHANGED <<auxVars, watcherVars>>

InitRestored ==
    /\ InitStore
    /\ InitServices
    /\ timeoutsLeft = 0
    /\ imported = ImportWatcher(TRUE)
    /\ eventsLeft = MaxInertEvents
    /\ strayLeft = 0
    /\ opsLeft = MaxBrowseOps
    /\ writesLeft = 0
    /\ faultsLeft = 0

RestoredNames == {NameOf[f] : f \in SnapshotFiles(snapDir[last.path])}
ObservedRestore ==
    /\ last.op = "restore" /\ last.ok
    /\ OnModified
    /\ lastProd'.name \in RestoredNames
    /\ ~lastProd'.is_directory

NextRestored ==
    \/ TakeManualSnapshot
    \/ RestoreSnapshot
    \/ ObservedRestore
    \/ Consumer

SpecRestored == InitRestored /\ [][NextRestored]_vars

\* ---- everything together
Next ==
    \/ NextStore
    \/ NextWatcher
    \/ SetSnapshotCreatedCallback
    \/ SetErrorCallback

Spec == Init /\ [][Next]_vars

\* ---- the codec on its own: a folder name is generated and parsed back
CodecSeconds == {0, 1, 59, 60, 3599, 3600, 86399, 86400, 5097599, 5097600,
                 31535999, 31536000, 68255999, 68256000}
CodecTimes == {sec * TicksPerSecond + frac : sec \in CodecSeconds,
                                              frac \in 0..(TicksPerSecond - 1)}

CodecRoundTrip ==
    /\ \E p \in 1..NumProfiles, t \in CodecTimes :
         codec' = [p |-> p, t |-> t, name |-> GetSnapshotFolderName(p, t),
                   parsed |-> ParseSnapshotFolderName(GetSnapshotFolderName(p, t))]
    /\ UNCHANGED <<storeVars, watcherVars, extracted, dirRank, listing, started,
                   timeoutsLeft, imported>>

SpecCodec == Init /\ [][CodecRoundTrip]_vars

\* ---- extract_profile_number on its own: it is given the name of a file
NamePrefixes == {sProfile, sProfileLower, <<"P", "r", "o", "f", "i", "l">>, <<>>,
                 <<"X">> \o sProfile}
NameDigits == {0, 1, 2, 3, 4, 5, 9}
NameNumbers == {<<>>} \cup {<<DigitChar(a)>> : a \in NameDigits}
               \cup {<<DigitChar(a), DigitChar(b)>> : a \in NameDigits, b \in NameDigits}
NameSuffixes == {sSav, sTempSav, sSavBak, <<>>, <<"_", "1">>}
FileNames == {prefix \o number \o suffix :
                 prefix \in NamePrefixes, number \in NameNumbers,
                 suffix \in NameSuffixes} \cup {sReadmeTxt}

ExtractCall ==
    /\ \E name \in FileNames :
         extracted' = [called |-> TRUE, name |-> name,
                       result |-> ExtractProfileNumber(name)]
    /\ UNCHANGED <<storeVars, watcherVars, codec, dirRank, listing, started,
                   timeoutsLeft, imported>>

SpecExtract == Init /\ [][ExtractCall]_vars

\* =========================================================================
\* Properties
\* =========================================================================
StoreStep(op) == opsLeft' = opsLeft - 1 /\ last'.op = op
FolderCount(dir, p) == Cardinality({path \in Paths : path[1] = p /\ dir[path].exists})
ListedCount(dir, p) == Cardinality(ListSnapshots(dir, p))
\* path is a listed snapshot of p and none listed for p has a later timestamp
IsNewestOf(dir, path, p) ==
    /\ path \in ListSnapshots(dir, p)
    /\ \A q \in ListSnapshots(dir, p) :
          SnapshotOf(dir, q).timestamp <= SnapshotOf(dir, path).timestamp
\* the directory that holds exactly the files of profile p in dir
ProfileView(dir, p) == [f \in SaveFiles |-> IF f \in FindProfileFiles(dir, p) THEN dir[f] ELSE 0]

\* what list_snapshots shows of a catalog: per folder, whether it is listed and,
\* if so, its files and its metadata
CatalogListing(dir) ==
    [path \in Paths |->
        IF path \in ListSnapshots(dir, path[1])
        THEN [listed |-> TRUE, files |-> dir[path].files, meta |-> dir[path].meta]
        ELSE [listed |-> FALSE, files |-> EmptyDir, meta |-> NoMeta]]
\* the folders a step removes
Gone == {path \in Paths : snapDir[path].exists /\ ~snapDir'[path].exists}

\* C1: parsing the folder name generated for profile P at time T gives a
\* record (not none) with timestamp = T truncated to whole seconds and
\* profile = P.
C1_RoundTrip ==
    codec.name # <<>> =>
        /\ codec.parsed.ok
        /\ codec.parsed.timestamp = (codec.t \div TicksPerSecond) * TicksPerSecond
        /\ codec.parsed.profile = codec.p

\* C2: after a successful create_snapshot(P, ...) in which no copy failed, the
\* snapshot at the returned path is listed for P and its folder holds exactly
\* the profile-P save files that were in save_dir at creation, with their
\* content: none missing, none extra.
C2_SnapshotMatchesSource ==
    [][(StoreStep("create") /\ last'.ok /\ ~last'.io) =>
          /\ last'.path \in ListSnapshots(snapDir', last'.p)
          /\ snapDir'[last'.path].files = ProfileView(saveDir, last'.p)]_vars

\* C3: whenever restore_snapshot(S) returns success, every file of S's folder
\* that the restore takes for a save file (.sav, .bak, _Temp.sav) is in save_dir
\* under the same name with the content of S's copy, also when the copy of a
\* file fails.
C3_RestoreReflectsSnapshot ==
    [][(StoreStep("restore") /\ last'.ok) =>
          \A f \in SnapshotFiles(snapDir[last'.path]) :
              saveDir'[f] = snapDir[last'.path].files[f]]_vars

\* C4: after restore_snapshot(S, backup_current = true) in which no copy
\* failed, live_backup/ProfileP holds exactly the profile-P save files that were
\* in save_dir immediately before the restore, with their pre-restore content.
C4_BackupIsPreRestoreState ==
    [][(StoreStep("restore") /\ last'.backup /\ ~last'.io) =>
          liveBackup'[last'.p] = ProfileView(saveDir, last'.p)]_vars

\* C7 (as claimed): a successful create_snapshot with overwrite_last = true
\* and a listed snapshot of the profile targets the newest listed snapshot and
\* leaves the number of snapshot folders of the profile unchanged; every other
\* successful create_snapshot targets a folder that did not exist before, so
\* the number of snapshots of the profile grows by exactly one.
C7_TargetFreshOrNewest ==
    [][(StoreStep("create") /\ last'.ok) =>
          IF last'.ow /\ ListSnapshots(snapDir, last'.p) # {}
          THEN /\ IsNewestOf(snapDir, last'.path, last'.p)
               /\ FolderCount(snapDir', last'.p) = FolderCount(snapDir, last'.p)
          ELSE /\ ~snapDir[last'.path].exists
               /\ ListedCount(snapDir', last'.p) = ListedCount(snapDir, last'.p) + 1]_vars

\* C7 (amended): as above for overwrite_last = true with a listed snapshot;
\* every other successful create_snapshot targets the folder named after the
\* second in which it is called, and the number of folders (of listed
\* snapshots) of the profile grows by one unless that folder already existed
\* (was already listed), as after a create earlier in the same second, in
\* which case it stays the same.
C7_TargetNamedOrNewest ==
    [][(StoreStep("create") /\ last'.ok) =>
          IF last'.ow /\ ListSnapshots(snapDir, last'.p) # {}
          THEN /\ IsNewestOf(snapDir, last'.path, last'.p)
               /\ FolderCount(snapDir', last'.p) = FolderCount(snapDir, last'.p)
               /\ ListedCount(snapDir', last'.p) = ListedCount(snapDir, last'.p)
          ELSE /\ \E t \in now..now' : last'.path = FreshPath[last'.p, t]
               /\ FolderCount(snapDir', last'.p) = FolderCount(snapDir, last'.p)
                     + (IF snapDir[last'.path].exists THEN 0 ELSE 1)
               /\ ListedCount(snapDir', last'.p) = ListedCount(snapDir, last'.p)
                     + (IF last'.path \in ListSnapshots(snapDir, last'.p) THEN 0 ELSE 1)]_vars

\* a successful create without overwrite_last landed on a folder that was
\* already there
C7_Witness ==
    /\ last.op = "create" /\ last.ok /\ ~last.ow /\ last.existed
    /\ ListedCount(snapDir, last.p) = 2

\* C10: a delete_snapshot of a snapshot whose folder is there returns true
\* (its removal not failing) and the snapshot is then no longer listed; the
\* same delete_snapshot made again directly afterwards returns false.
C10_DeleteTwice ==
    last.op = "delete" =>
        /\ (last.existed /\ ~last.io) => last.ok
        /\ last.ok => last.path \notin ListSnapshots(snapDir, last.p)
        /\ last.again => ~last.ok

C10_Witness == last.op = "delete" /\ last.again /\ ~last.ok /\ ~last.existed

\* ---- steps of the watcher
\* the handler was given a file-modified event for a save file of profile p
ModifiedStep(p) ==
    /\ eventsLeft' = eventsLeft - 1
    /\ lastProd'.kind = "modified"
    /\ lastProd'.profile = p
Enqueued == Len(queue') = Len(queue) + 1
\* consumer i leaves its check of the enabled flag
CheckStep(i) == threads[i].pc = "dequeued" /\ threads'[i].pc # "dequeued"
\* consumer i calls create_snapshot for its event and returns to the loop
ProcessStep(i) == threads[i].pc = "checked" /\ threads'[i].pc = "top"

\* C5 (as claimed): a file-modified event for profile P is enqueued if and only
\* if no event for P (modified or created) was enqueued before in this watcher
\* run, or the time since P's last enqueued event is greater than the
\* threshold.
C5_DebounceOnLastEvent ==
    [][\A p \in Profiles :
          ModifiedStep(p) =>
             (Enqueued <=> \/ enqueuedAt[p].any = NoTime
                           \/ now' - enqueuedAt[p].any > ThresholdTicks)]_vars

\* C5 (amended): a file-modified event for profile P is enqueued if and only if
\* no file-modified event for P was enqueued before in this watcher run, or the
\* time from the stamp of P's last enqueued file-modified event to the moment
\* of the decision is greater than the threshold; enqueued file-created events
\* and the events of other profiles do not count. The event enqueued carries
\* P and a stamp not after the decision.
C5_DebounceOnLastModified ==
    [][\A p \in Profiles :
          ModifiedStep(p) =>
             /\ Enqueued <=> \/ enqueuedAt[p].modified = NoTime
                             \/ now' - enqueuedAt[p].modified > ThresholdTicks
             /\ Enqueued <=> lastProd'.enqueued
             /\ Enqueued =>
                  /\ queue'[Len(queue')].type = "file_modified"
                  /\ queue'[Len(queue')].profile = p
                  /\ queue'[Len(queue')].timestamp \in now..now'
             /\ ~Enqueued => queue' = queue]_vars

\* the second file-modified event of a profile was held back
C5_Witness ==
    /\ lastProd.kind = "modified" /\ ~lastProd.enqueued
    /\ enqueuedAt[lastProd.profile].modified # NoTime
    /\ now - enqueuedAt[lastProd.profile].modified = ThresholdTicks

\* C6: for an event the consumer processes, create_snapshot is called for the
\* event's profile with overwrite_last = true if and only if a last snapshot
\* time is recorded for the profile and the event's stamp minus that time is at
\* most the threshold.
C6_OverwriteDecision ==
    [][\A i \in Threads :
          ProcessStep(i) =>
             LET event == threads[i].ev
                 last_time == lastSnapshotTime[event.profile]
             IN  /\ opsLeft' = opsLeft - 1
                 /\ last'.op = "create"
                 /\ last'.p = event.profile
                 /\ last'.ow <=> /\ last_time # NoTime
                                 /\ event.timestamp - last_time <= ThresholdTicks]_vars

\* the consumer has overwritten the snapshot it took for an earlier event
C6_Witness ==
    /\ lastCons.kind = "processed"
    /\ last.op = "create" /\ last.ow /\ last.ok /\ last.existed
    /\ opsLeft = 0

\* C8 (as claimed): an event dequeued while the enabled flag is false is never
\* processed, and no create_snapshot of the consumer begins while the flag is
\* false.
C8_NoCreateWhileDisabled ==
    [][\A i \in Threads : ProcessStep(i) => (threads[i].atGet /\ enabled)]_vars

\* C8 (amended): the consumer reads the enabled flag once for each event, after
\* it has dequeued it: the event is dropped (no create_snapshot, no callback)
\* if and only if the flag is false at that reading, and a create_snapshot of
\* the consumer begins only for an event whose reading found the flag true.
C8_DroppedAtCheck ==
    [][/\ \A i \in Threads :
            CheckStep(i) =>
               /\ UNCHANGED storeVars
               /\ IF enabled
                  THEN threads'[i].pc = "checked" /\ UNCHANGED lastCons
                  ELSE /\ threads'[i].pc = "top"
                       /\ lastCons' = [NoCons EXCEPT !.kind = "dropped"]
       /\ \A i \in Threads :
            threads'[i].pc = "checked" => (threads[i].pc = "checked" \/ (CheckStep(i) /\ enabled))
       /\ opsLeft' # opsLeft => \E i \in Threads : ProcessStep(i)]_vars

\* an event was dropped, nothing having been created
C8_Witness == lastCons.kind = "dropped" /\ last.op = "none" /\ eventsLeft = 0

\* C9: for an event the consumer processes with both callbacks set, exactly one
\* callback is called, once: on_snapshot_created if create_snapshot returned a
\* snapshot, on_error if it returned none.
C9_ExactlyOneCallback ==
    [][\A i \in Threads :
          (ProcessStep(i) /\ callbacks.created /\ callbacks.error) =>
             /\ lastCons'.kind = "processed"
             /\ lastCons'.created + lastCons'.error = 1
             /\ lastCons'.created = 1 <=> last'.ok]_vars

\* the error callback was called for a create_snapshot that returned none
C9_Witness ==
    /\ lastCons.kind = "processed" /\ lastCons.error = 1 /\ lastCons.created = 0
    /\ last.op = "create" /\ ~last.ok


\* C11: list_snapshots returns its result ordered by timestamp descending
\* (each element's timestamp >= the next one's), and a call on the catalog of
\* the call before, with the same argument, returns the same sequence.
C11_ListSortedAndRepeatable ==
    [][(listing' # listing) =>
          /\ \A i \in 1..(Len(listing'.result) - 1) :
                SnapshotOf(snapDir, listing'.result[i]).timestamp
                    >= SnapshotOf(snapDir, listing'.result[i + 1]).timestamp
          /\ (/\ listing.called
              /\ listing.profile_num = listing'.profile_num
              /\ listing.catalog = snapDir
              /\ listing.dirs = profileDir) => listing'.result = listing.result]_vars

\* C12: create_snapshot(P, ...) returns none when save_dir holds no file of
\* profile P, and whenever create_snapshot returns none the catalog is as it
\* was: the same snapshots are listed, with the same files and metadata.
C12_NoneLeavesCatalog ==
    [][StoreStep("create") =>
          /\ FindProfileFiles(saveDir, last'.p) = {} => ~last'.ok
          /\ ~last'.ok => CatalogListing(snapDir') = CatalogListing(snapDir)]_vars

C14_EmptyCatalogListsEmpty ==
    (/\ listing.called
     /\ \A path \in Paths :
           listing.profile_num \in {0, path[1]} =>
               ~(listing.dirs[path[1]] /\ listing.catalog[path].exists))
        => (listing.result = <<>> /\ ~listing.raised)
\* Profile1 is listed while its directory is missing and another profile
\* holds a snapshot
C14_Witness ==
    /\ listing.called
    /\ listing.profile_num = 1
    /\ ~listing.dirs[1]
    /\ \E path \in Paths : listing.catalog[path].exists
    /\ listing.result = <<>>

\* C15: delete_snapshots goes on after an element that is not removed, raises
\* nothing, returns the number of folders it removed, and no folder it removed
\* is listed afterwards.
C15_BatchDeletesAll ==
    [][StoreStep("delete_snapshots") =>
          /\ ~last'.raised
          /\ last'.count = Cardinality(Gone)
          /\ \A i \in DOMAIN last'.asked :
                (snapDir[last'.asked[i]].exists /\ i \notin last'.fails)
                    => last'.asked[i] \in Gone
          /\ \A path \in Gone :
                /\ \E i \in DOMAIN last'.asked : last'.asked[i] = path
                /\ path \notin ListSnapshots(snapDir', path[1])]_vars
\* a batch of two whose first removal failed and whose second succeeded
C15_Witness ==
    /\ last.op = "delete_snapshots"
    /\ Len(last.asked) = 2
    /\ last.fails = {1}
    /\ last.count = 1
    /\ ~snapDir[last.asked[2]].exists

\* C16: extract_profile_number returns N exactly when the name starts with
\* "Profile" followed by a maximal run of one or more digits whose value N is
\* in 1..4, and none otherwise: Profile3.sav gives 3; Profile5.sav,
\* Profile0.sav, Profile12.sav, Profile.sav and readme.txt give none.
C16_ExtractProfileNumber ==
    extracted.called =>
        LET name == extracted.name
            from == Len(sProfile) + 1
            \* the lengths k of a maximal run of k >= 1 digits after "Profile"
            runs == {k \in 1..(Len(name) - Len(sProfile)) :
                        /\ \A i \in from..(from + k - 1) : IsDigit(name[i])
                        /\ from + k <= Len(name) => ~IsDigit(name[from + k])}
            value(k) == DigitsValue(SubSeq(name, from, from + k - 1), 0)
        IN  /\ \A N \in 1..NumProfiles :
                  extracted.result = N <=>
                      /\ StartsWith(name, sProfile)
                      /\ \E k \in runs : value(k) = N
            /\ extracted.result \in 0..NumProfiles
            /\ name = sProfile \o <<"3">> \o sSav => extracted.result = 3
            /\ name \in {sProfile \o <<"5">> \o sSav, sProfile \o <<"0">> \o sSav,
                          sProfile \o <<"1", "2">> \o sSav, sProfile \o sSav,
                          sReadmeTxt} => extracted.result = 0
\* Profile12.sav was given and none returned
C16_Witness ==
    /\ extracted.called
    /\ extracted.name = sProfile \o <<"1", "2">> \o sSav
    /\ extracted.result = 0

\* C17: enable and disable change only the enabled flag: the running flag, the
\* handler's debounce state, the consumer thread, the queue and the store
\* stay as they are, so events are still observed and enqueued while disabled.
C17_ToggleOnlyEnabled ==
    [][(enabled' # enabled) =>
          UNCHANGED <<running, queue, lastEventTime, threads, procThread, ui,
                      callbacks, enqueuedAt, started, storeVars>>]_vars
\* disabled after an event was processed: the watcher still runs, its consumer
\* is alive and an event has been enqueued and waits in the queue
C17_Witness ==
    /\ ~enabled
    /\ lastCons.kind = "processed"
    /\ running
    /\ procThread # 0 /\ threads[procThread].pc # "none"
    /\ lastProd.enqueued
    /\ queue # <<>>

\* the consumer loops that are alive, and those that are handling an event
AliveLoops == {i \in Threads : threads[i].pc # "none"}
Handling == {i \in Threads : threads[i].pc \in {"dequeued", "checked"}}

\* C18: when watchdog is not available or the observer fails to start, the
\* services still load, start() returns false and the watcher stays stopped:
\* not running, no consumer thread, no event enqueued or processed until a
\* later start.
C18_StartFailureInert ==
    /\ [](imported.result = "ok")
    /\ [](started = "false" => (~running /\ AliveLoops = {} /\ procThread = 0))
    /\ [][(started = "false" /\ started' = "false") =>
             UNCHANGED <<queue, threads, lastCons>>]_vars

\* C19: whatever the sequence of start and stop calls, a stop whose join timed
\* out and a new start included, at most one consumer loop is alive and at
\* most one create_snapshot of the watcher is in progress.
C19_OneConsumerLoop ==
    /\ Cardinality(AliveLoops) <= 1
    /\ Cardinality({i \in Threads : threads[i].pc = "checked"}) <= 1

\* C20: events are handled in the order they were enqueued, one at a time:
\* the event taken is the head of the queue, and the handling of an event
\* does not begin while the handling of an earlier one is not complete.
C20_FifoOneAtATime ==
    [][/\ Len(queue') < Len(queue) => queue' = Tail(queue)
       /\ Cardinality(Handling') <= 1]_vars

\* ---------------------------------------------------------------- C29
\* C29: restore_snapshot returns false when the snapshot folder holds no file
\* it recognises as a save file, and whenever it returns false save_dir holds
\* what it held before the call
C29_FailedRestoreKeepsSaveDir ==
    [][StoreStep("restore") =>
          /\ SnapshotFiles(snapDir[last'.path]) = {} => ~last'.ok
          /\ ~last'.ok => saveDir' = saveDir]_vars

\* ---------------------------------------------------------------- C21
\* a snapshot create_snapshot has returned: a folder with loadable metadata
Returned(dir, path) == dir[path].exists /\ dir[path].meta.loadable

\* C21, as stated: once create_snapshot has returned a snapshot, every step
\* leaves its files, metadata and timestamp as they are, or is a delete that
\* removes the folder
C21_ImmutableUntilDeleted ==
    [][\A path \in Paths :
          Returned(snapDir, path) =>
             \/ snapDir'[path] = snapDir[path]
             \/ /\ ~snapDir'[path].exists
                /\ last'.op \in {"delete", "delete_snapshots"}]_vars

\* C21, amended: the folder of a returned snapshot is changed only by a delete
\* that removes it or by a create_snapshot of its profile that writes into it:
\* one with overwrite_last when the snapshot is the newest listed of the
\* profile, or one whose clock reading names the same folder
C21_ChangedOnlyByCreateInto ==
    [][\A path \in Paths :
          Returned(snapDir, path) =>
             \/ snapDir'[path] = snapDir[path]
             \/ /\ ~snapDir'[path].exists
                /\ last'.op \in {"delete", "delete_snapshots"}
             \/ /\ StoreStep("create")
                /\ last'.path = path /\ last'.p = path[1]
                /\ \/ last'.ow /\ IsNewestOf(snapDir, path, path[1])
                   \/ \E t \in ClockReadings : path = FreshPath[path[1], t]]_vars

\* a create_snapshot with overwrite_last has written a new timestamp into the
\* folder of a snapshot that was there before
C21_Witness ==
    /\ last.op = "create" /\ last.ok /\ last.ow /\ last.existed
    /\ snapDir[last.path].meta.timestamp = now
    /\ lastSnapshotTime[last.p] = now
    /\ opsLeft = MaxStoreOps - 1

\* ---------------------------------------------------------------- C22
\* start() has started the watcher in this step
StartStep == ~running /\ running'

\* C22: when the watcher starts, the last-snapshot-time of every profile that
\* has snapshots in the catalog is the timestamp of its newest snapshot, and
\* the last-event-time of every profile is empty
C22_RebuiltAtStart ==
    [][StartStep =>
          \A p \in Profiles :
             /\ lastEventTime'[p] = NoTime
             /\ ListSnapshots(snapDir', p) # {} =>
                   \E path \in NewestListed(snapDir', p) :
                      lastSnapshotTime'[p] = SnapshotOf(snapDir', path).timestamp]_vars

\* ---------------------------------------------------------------- C23
\* on_created has handled an event for a save file of profile p
CreatedStep(p) ==
    /\ eventsLeft' = eventsLeft - 1
    /\ lastProd'.kind = "created"
    /\ lastProd'.profile = p

\* C23: a file-created event for a save file of profile p is always enqueued,
\* whatever the time since the last enqueued event of p and whether or not
\* the watcher is enabled
C23_CreatedAlwaysEnqueued ==
    [][\A p \in Profiles :
          CreatedStep(p) =>
             /\ Len(queue') = Len(queue) + 1
             /\ SubSeq(queue', 1, Len(queue)) = queue
             /\ queue'[Len(queue')].type = "file_created"
             /\ queue'[Len(queue')].profile = p]_vars

\* a file-created event was enqueued in the tick in which an event of the
\* same profile had been enqueued before it, the watcher being disabled
C23_Witness ==
    /\ lastProd.kind = "created" /\ lastProd.enqueued
    /\ ~enabled
    /\ Len(queue) = 2
    /\ queue[1].profile = queue[2].profile
    /\ queue[1].timestamp = queue[2].timestamp
    /\ queue[2].type = "file_created"

\* ---------------------------------------------------------------- C24
\* the name ends in .sav, _Temp.sav or .sav.bak
HasSaveSuffix(name) ==
    \/ EndsWith(name, sSav)
    \/ EndsWith(name, sTempSav)
    \/ EndsWith(name, sSavBak)

\* a handler has been given an event in this step
ProducerStep == eventsLeft' + strayLeft' = eventsLeft + strayLeft - 1

\* the events that are in the queue or in the hands of a consumer
EventsHeld ==
    {queue[i] : i \in 1..Len(queue)}
    \cup {threads[i].ev : i \in {j \in Threads : threads[j].ev # NoEvent}}

\* C24: every event in the queue carries a profile in 1..4 and comes from a
\* path that is no directory and whose name ends in .sav, _Temp.sav or
\* .sav.bak; an event for a directory, for another name or for a name without
\* a profile number in 1..4 enqueues nothing and leaves the debounce state
C24_OnlySaveFilesEnqueue ==
    /\ [](\A e \in EventsHeld : e.profile \in 1..NumProfiles)
    /\ [][ProducerStep =>
             /\ queue' # queue =>
                   /\ ~lastProd'.is_directory
                   /\ HasSaveSuffix(lastProd'.name)
                   /\ ExtractProfileNumber(lastProd'.name) \in 1..NumProfiles
                   /\ queue'[Len(queue')].profile = ExtractProfileNumber(lastProd'.name)
             /\ (\/ lastProd'.is_directory
                 \/ ~HasSaveSuffix(lastProd'.name)
                 \/ ExtractProfileNumber(lastProd'.name) \notin 1..NumProfiles) =>
                   /\ queue' = queue
                   /\ lastEventTime' = lastEventTime]_vars

\* with an event in the queue, an event for a directory that bears the name
\* of a save file has been ignored
C24_Witness ==
    /\ lastProd.kind = "ignored"
    /\ lastProd.is_directory
    /\ lastProd.name = MainName(1)
    /\ queue # <<>>
    /\ strayLeft < MaxStray

\* ---------------------------------------------------------------- C25
\* the observer has an event of a save file to deliver and the queue of the
\* model has room for it
CanDeliver == running /\ eventsLeft > 0 /\ Len(queue) < MaxQueue

\* C25: the handlers are never blocked by snapshot I/O: whenever the observer
\* has an event to deliver, on_modified and on_created can take their step,
\* also while a consumer is inside create_snapshot; a handler step leaves the
\* store and the consumers as they are, and every create_snapshot in the runs
\* of the watcher is the step of a consumer
C25_ProducerNeverBlocked ==
    /\ [](CanDeliver => ENABLED OnModified /\ ENABLED OnCreated)
    /\ [][/\ ProducerStep =>
                UNCHANGED <<saveDir, snapDir, profileDir, liveBackup, lastSnapshotTime,
                            last, opsLeft, threads, lastCons>>
          /\ opsLeft' # opsLeft =>
                /\ last'.op = "create"
                /\ \E i \in Threads :
                      threads[i].pc = "checked" /\ threads'[i].pc = "top"]_vars

\* while a consumer is inside create_snapshot for an event, a later event has
\* been put on the queue
C25_Witness ==
    \E i \in Threads :
       /\ threads[i].pc = "checked"
       /\ queue # <<>>
       /\ lastProd.enqueued
       /\ queue[Len(queue)].timestamp > threads[i].ev.timestamp

\* ---------------------------------------------------------------- C26
\* C26: once the watcher is stopped, the consumer loops exit unless start()
\* is called again, an event in the making being finished first; from stop()
\* on is_running() is false until a start(); a loop that has seen the stop
\* takes no further step, and whoever begins a create_snapshot is a loop that
\* has not seen it
C26_StopEndsConsumer ==
    /\ ~running ~> (AliveLoops = {} \/ running)
    /\ [][/\ ~running /\ running' => started' = "true" /\ ui = "idle"
          /\ \A i \in Threads :
                threads[i].pc = "none" /\ ~StartStep => threads'[i] = threads[i]
          /\ opsLeft' # opsLeft =>
                \E i \in Threads :
                   threads[i].pc = "checked" /\ threads'[i].pc = "top"]_vars

\* stop() has given up waiting for a consumer that was inside create_snapshot;
\* the consumer has finished the snapshot and left its loop
C26_Witness ==
    /\ ~running /\ started = "true"
    /\ timeoutsLeft < MaxTimeouts
    /\ lastCons.kind = "processed"
    /\ AliveLoops = {}
    /\ ui = "idle"

\* ---------------------------------------------------------------- C27
\* C27: a callback that raises does not stop the consumer: for that event no
\* second callback is called, the one called is the one for the outcome of
\* create_snapshot, and the consumer is back at the top of its loop, from
\* where it takes the later events
C27_RaisingCallbackCaught ==
    /\ [][\A i \in Threads :
             (ProcessStep(i) /\ lastCons'.raised) =>
                /\ lastCons'.created + lastCons'.error = 1
                /\ lastCons'.created = 1 <=> last'.ok
                /\ threads'[i].pc = "top"]_vars
    /\ [](\A i \in Threads : threads[i].pc = "top" => ENABLED ConsumerTop(i))

\* after a callback has raised, a consumer is at work on the next event
C27_Witness ==
    /\ lastCons.kind = "processed" /\ lastCons.raised
    /\ \E i \in Threads : threads[i].pc = "checked"
    /\ opsLeft = MaxStoreOps - 1

\* ---------------------------------------------------------------- C28
\* C28: the last-snapshot-time changes only in a successful create_snapshot,
\* which sets the entry of its profile to the timestamp in the metadata it
\* wrote and leaves the other entries; every other step, a failed
\* create_snapshot, a delete and a restore among them, leaves the map
C28_LastSnapshotTimeFrame ==
    [][/\ lastSnapshotTime' # lastSnapshotTime => StoreStep("create") /\ last'.ok
       /\ (StoreStep("create") /\ last'.ok) =>
             /\ lastSnapshotTime'[last'.p] = snapDir'[last'.path].meta.timestamp
             /\ \A q \in Profiles \ {last'.p} :
                   lastSnapshotTime'[q] = lastSnapshotTime[q]]_vars

\* after a snapshot of the other profile, a create_snapshot that got as far
\* as the metadata and failed to write them has left the map as it was
C28_Witness ==
    /\ last.op = "create" /\ ~last.ok /\ last.mfail
    /\ lastSnapshotTime[last.p] = NoTime
    /\ \E q \in Profiles \ {last.p} :
          /\ lastSnapshotTime[q] # NoTime
          /\ \E path \in Paths :
                /\ path[1] = q
                /\ snapDir[path].meta.loadable
                /\ snapDir[path].meta.timestamp = lastSnapshotTime[q]

\* ---------------------------------------------------------------- C30
\* the name has the form YYYY-MM-DD_HH-MM-SS_profile{n}
FollowsScheme(name, n) ==
    /\ Len(name) > 19
    /\ \A i \in 1..19 :
          IF i \in {5, 8, 14, 17} THEN name[i] = "-"
          ELSE IF i = 11 THEN name[i] = "_"
          ELSE IsDigit(name[i])
    /\ SubSeq(name, 20, Len(name)) = <<"_">> \o sProfileLower \o Numeral(n)

\* C30: a child directory of snapshot_dir/Profile{N} is returned by
\* list_snapshots if and only if it holds a loadable metadata file or, having
\* no metadata file, bears a name of the generated scheme
C30_ListedIffMetadataOrName ==
    \A path \in Paths :
       snapDir[path].exists =>
          (path \in ListSnapshots(snapDir, path[1])
             <=> \/ snapDir[path].meta.present /\ snapDir[path].meta.loadable
                 \/ /\ ~snapDir[path].meta.present
                    /\ FollowsScheme(FolderName[path], path[1]))

\* ---------------------------------------------------------------- C31
\* create_snapshot has gone through a capture that failed, nothing else failing
FailedCaptureStep ==
    /\ StoreStep("create")
    /\ faultsLeft' = faultsLeft - 1
    /\ ~last'.io /\ ~last'.mfail

C32_AbsentDeleteSucceeds ==
    [][(StoreStep("delete") /\ ~snapDir[last'.path].exists) =>
          /\ last'.ok
          /\ UNCHANGED <<saveDir, snapDir, profileDir, liveBackup>>]_vars

\* C32, amended: safe_delete_directory on a directory that is not there
\* returns false and changes nothing
C32_AbsentDeleteFails ==
    [][(StoreStep("delete") /\ ~snapDir[last'.path].exists) =>
          /\ ~last'.ok
          /\ ~last'.raised
          /\ UNCHANGED <<saveDir, snapDir, profileDir, liveBackup>>]_vars

\* the first operation was a delete_snapshot of a folder that is not there
C32_Witness ==
    /\ last.op = "delete" /\ ~last.existed /\ ~last.again /\ ~last.ok
    /\ opsLeft = MaxStoreOps - 1

\* ---------------------------------------------------------------- C33
\* the sources of the safe_copy_files call of create_snapshot that are in the
\* folder with the content they have in save_dir
InDestination(src, dst, src_files) == {f \in src_files : dst[f] = src[f]}

\* C33, as stated: safe_copy_files returns exactly the number of sources that
\* are now in the destination with the source's content
C33_CountIsFilesInDestination ==
    [][StoreStep("create") =>
          last'.count = Cardinality(InDestination(saveDir, snapDir'[last'.path].files,
                                                  FindProfileFiles(saveDir, last'.p)))]_vars

\* C33, amended: safe_copy_files returns the number of sources whose copy
\* succeeded, and that many sources at least are in the destination with the
\* source's content; a source whose copy fails is not counted and does not
\* keep the others from being copied: all but the failed ones are counted, and
\* when none fails every source is counted and is in the destination
C33_CountIsSuccessfulCopies ==
    [][StoreStep("create") =>
          LET sources == FindProfileFiles(saveDir, last'.p)
              there == InDestination(saveDir, snapDir'[last'.path].files, sources)
          IN  /\ last'.count <= Cardinality(there)
              /\ last'.count >= Cardinality(sources) - (faultsLeft - faultsLeft')
              /\ last'.io => last'.count < Cardinality(sources)
              /\ ~last'.io => last'.count = Cardinality(sources) /\ there = sources]_vars

\* of the three save files of profile 1 one copy has failed: two are counted
C33_Witness ==
    /\ last.op = "create" /\ last.io /\ last.ok
    /\ last.count = 2
    /\ snapDir[last.path].meta.files_copied = 2

\* ---------------------------------------------------------------- C34
\* C34: round trip of create and restore: when create_snapshot(P) has made a
\* snapshot without a failed copy and the next Store call is a restore of that
\* snapshot that returns true without a failed copy, every file of the
\* profile that is in the snapshot folder (Profile{P}.sav, Profile{P}_Temp.sav,
\* Profile{P}.sav.bak1) is in save_dir with its snapshotted content
C34_RestorePutsBackEveryCopiedFile ==
    [][(/\ last.op = "create" /\ last.ok /\ ~last.io
        /\ StoreStep("restore") /\ last'.path = last.path
        /\ last'.ok /\ ~last'.io) =>
          \A f \in FindProfileFiles(snapDir[last'.path].files, last'.p) :
             saveDir'[f] = snapDir[last'.path].files[f]]_vars

\* ---------------------------------------------------------------- C35
\* a consumer thread returns from create_snapshot
ConsumerCreated(i) ==
    threads[i].pc = "checked" /\ threads'[i].pc = "top" /\ StoreStep("create")

\* C35: whenever the consumer calls create_snapshot with overwrite_last=true
\* and the contents of a folder are replaced, that folder holds the snapshot
\* whose creation set the profile's current last-snapshot-time: its recorded
\* timestamp is that time
C35_OverwritesSnapshotOfLastTime ==
    [][\A i \in Threads :
          (ConsumerCreated(i) /\ last'.ow /\ last'.existed) =>
             snapDir[last'.path].meta.timestamp = lastSnapshotTime[last'.p]]_vars

\* ---------------------------------------------------------------- C36
\* C36: with the watcher running and enabled, a create_snapshot that the
\* consumer makes for a file event of a restore's own writes, no other Store
\* call having come after the restore, leaves every snapshot that was there
\* at the restore as it is
C36_RestoreNeverReplacesSnapshot ==
    [][\A i \in Threads :
          (ConsumerCreated(i) /\ last.op = "restore" /\ running /\ enabled) =>
             \A path \in Paths :
                Returned(snapDir, path) => snapDir'[path] = snapDir[path]]_vars

\* ---------------------------------------------------------------- C37
\* C37: under fair scheduling of the consumer, while the watcher stays running
\* and enabled a queue that holds events is drained, an event that was
\* dequeued reaches create_snapshot and the create_snapshot returns; the
\* event is handled by one create_snapshot call, after which exactly one
\* callback is called: on_snapshot_created when a snapshot was returned,
\* on_error when none was
C37_EnqueuedLeadsToSnapshot ==
    /\ (queue # <<>>) ~> (queue = <<>> \/ ~(running /\ enabled))
    /\ \A i \in Threads :
          (threads[i].pc = "dequeued") ~>
             (threads[i].pc = "checked" \/ ~(running /\ enabled))
    /\ \A i \in Threads :
          (threads[i].pc = "checked") ~>
             (threads[i].pc # "checked" /\ lastCons.kind = "processed")
    /\ [][\A i \in Threads :
             /\ (threads[i].pc = "dequeued" /\ threads'[i].pc = "top") => ~enabled
             /\ (threads[i].pc = "checked" /\ threads'[i] # threads[i]) =>
                   /\ StoreStep("create")
                   /\ last'.p = threads[i].ev.profile
                   /\ lastCons'.kind = "processed"
                   /\ lastCons'.created + lastCons'.error = 1
                   /\ lastCons'.created = 1 <=> last'.ok]_vars

\* the watcher is running and enabled, the queue is drained and the event
\* taken last has had its create_snapshot call and one callback
C37_Witness ==
    /\ running /\ enabled
    /\ lastProd.enqueued /\ eventsLeft = 0
    /\ queue = <<>> /\ Handling = {}
    /\ lastCons.kind = "processed"
    /\ lastCons.created + lastCons.error = 1
    /\ last.op = "create"

\* ---------------------------------------------------------------- C38
\* C38: the first file-modified event of a profile after enable() on a
\* running watcher is enqueued whatever came while the watcher was disabled:
\* when the one event before it was dropped by the consumer, the watcher being
\* disabled, and the watcher has been enabled since, the event is enqueued
C38_FirstEventAfterEnableEnqueued ==
    [][\A p \in Profiles :
          (/\ ModifiedStep(p)
           /\ running /\ enabled
           /\ eventsLeft = MaxEvents - 1
           /\ lastCons.kind = "dropped"
           /\ queue = <<>> /\ Handling = {}) =>
             lastProd'.enqueued]_vars

\* ---------------------------------------------------------------- C39
\* C39: stop() and start() leave the event queue as it is; a start() of a
\* stopped watcher begins with an empty last-event-time map; and an event
\* that was in the queue at that start(), no event of its profile having been
\* enqueued since, is dequeued by the consumer thread which that start() started
C39_QueueKeptForNewConsumer ==
    /\ [][running' # running \/ ui' # ui => queue' = queue]_vars
    /\ [][StartStep => lastEventTime' = [p \in Profiles |-> NoTime]]_vars
    /\ [][\A i \in Threads :
             (/\ threads[i].pc = "get" /\ threads'[i].pc = "dequeued"
              /\ enqueuedAt[threads'[i].ev.profile].any = NoTime) =>
                i = procThread]_vars

\* ---------------------------------------------------------------- C40
\* C40: a step that finds the watcher running and leaves it running creates no
\* consumer thread, keeps processing_thread and clears no entry of the debounce
\* state; a start() on a running watcher has returned true; the queue changes
\* only by an event put at its end or taken from its head; and on a watcher
\* that is not running no step of the presentation layer begins a join or
\* creates a thread unless it is a start()
C40_StartAndStopAreIdempotent ==
    /\ [](running => started = "true")
    /\ [][running /\ running' =>
             /\ \A i \in Threads : threads[i].pc = "none" => threads'[i].pc = "none"
             /\ procThread' = procThread
             /\ \A p \in Profiles :
                   /\ lastEventTime[p] # NoTime => lastEventTime'[p] # NoTime
                   /\ enqueuedAt[p].any # NoTime => enqueuedAt'[p].any # NoTime]_vars
    /\ [][queue' # queue =>
             \/ /\ ProducerStep
                /\ Len(queue') = Len(queue) + 1
                /\ SubSeq(queue', 1, Len(queue)) = queue
             \/ /\ queue # <<>> /\ queue' = Tail(queue)
                /\ \E i \in Threads : threads'[i].pc = "dequeued"
                                      /\ threads'[i].ev = Head(queue)]_vars
    /\ [][~running /\ ~running' =>
             /\ ui = "idle" => ui' = "idle"
             /\ \A i \in Threads : threads[i].pc = "none" => threads'[i].pc = "none"]_vars

\* a watcher that is running with one consumer thread, an event in its queue
\* and an entry in its debounce state: start() here returns true and this is the
\* state it leaves
C40_Witness ==
    /\ running /\ started = "true" /\ ui = "idle"
    /\ Cardinality(AliveLoops) = 1 /\ procThread \in AliveLoops
    /\ queue # <<>>
    /\ \E p \in Profiles : lastEventTime[p] # NoTime

====
